---- MODULE Spec2Model ----
(***************************************************************************)
(* A model of the pollutant analyzer of air-sense-explorer:                *)
(* services/airQualityService.ts, analyzePollutants and the pollutantInfo  *)
(* table it reads.                                                         *)
(*                                                                         *)
(* A reading (the `components` argument) is a JavaScript object; the model *)
(* keeps it as the sequence Object.entries returns: its own keys in        *)
(* insertion order, each with its value.  Concentrations are non-negative  *)
(* integers.  Strings are the source's, with the subscripts and the unit   *)
(* written in ASCII (NO2 for the name of no2, ug/m3 for the unit).         *)
(***************************************************************************)
EXTENDS Integers, Sequences, FiniteSets, TLC

VARIABLES
    pollutantInfo,   \* the module-level table analyzePollutants reads
    components,      \* the reading passed to the latest call (Object.entries order)
    analysis,        \* what the latest call of analyzePollutants produced
    last,            \* the kind of the latest call and what the call before it listed
    first,           \* the first call of the callers: its reading and what it returned
    ncalls,          \* the number of calls the callers made so far
    heap,            \* the objects of the program, by address: the sources lists of
                     \* the table, then the readings and what the calls allocated
    callers,         \* each caller of analyzePollutants: the reading it holds, what
                     \* it was returned and the address of the array it was returned
    aqi,             \* data.main.aqi of the reading a badge is rendered for
    badge,           \* the category and the colour class rendered for aqi
    fetchCall,       \* the latest call of fetchAirQualityData: arguments, request, outcome
    ui,              \* each fetching component: loading flag, pending await, toast, data
    component,       \* which ImageAnalysis source the upload list belongs to
    images,          \* ImageAnalysis: the `images` state
    previews,        \* ImageAnalysis: the `previews` state
    revoked,         \* ImageAnalysis: the preview URLs given to URL.revokeObjectURL
    notice,          \* ImageAnalysis: the toast shown last
    isAnalyzing,     \* ImageAnalysis: "no", or the await a run of analyzeImages is at
    geminiApiKey,    \* ImageAnalysis of part_001: the `apiKey` state
    localStorage,    \* the browser's local storage: what each storage key holds
    keyCalls,        \* the calls of setApiKey at their await
    keySettled,      \* the call of setApiKey that resumed last
    searchParams,    \* the lat and lon parameters of the page's URL
    mounted,         \* whether the effects of the first render have run
    dashboard,       \* Dashboard: coordinates, data, isLoading, runs of fetchData
    airQualityMap,   \* AirQualityMap: currentLocation, its geolocation request,
                     \* currentData, isLoading, runs of its fetchData
    coordinateInput, \* CoordinateInput: the lat and lon fields, isLoading
    pageToast        \* the toast shown last on the page

analyzerVars == <<pollutantInfo, components, analysis, last, first, ncalls>>

callerVars == <<heap, callers>>

badgeVars == <<aqi, badge>>

fetchVars == <<fetchCall, ui>>

imageVars == <<component, images, previews, revoked, notice, isAnalyzing, geminiApiKey>>

keyVars == <<localStorage, keyCalls, keySettled>>

pageVars == <<searchParams, mounted, dashboard, airQualityMap, coordinateInput, pageToast>>

vars == <<pollutantInfo, components, analysis, last, first, ncalls, heap, callers,
          aqi, badge, fetchCall, ui, component, images, previews, revoked, notice,
          isAnalyzing, geminiApiKey,
          localStorage, keyCalls, keySettled,
          searchParams, mounted, dashboard, airQualityMap, coordinateInput, pageToast>>

(***************************************************************************)
(* Bounds of the model.                                                    *)
(***************************************************************************)
\* the largest number of keys of a reading
MaxKeys == 2
\* the largest number of calls of a session
MaxCalls == 3
\* the AQI indices drawn are -MaxAqi..MaxAqi
MaxAqi == 60
\* the largest number of runs of one effect in flight at a time
MaxInFlight == 2
\* the largest number of files the upload list is followed up to
MaxImages == 6

(***************************************************************************)
(* Sequence helpers.                                                       *)
(***************************************************************************)
Range(s) == {s[i] : i \in 1..Len(s)}

NoDup(s) == \A i, j \in 1..Len(s) : s[i] = s[j] => i = j

\* the index of the first occurrence of x in s (0 when absent)
IndexOf(s, x) ==
    IF x \in Range(s) THEN CHOOSE i \in 1..Len(s) : s[i] = x /\ \A j \in 1..(i - 1) : s[j] # x
    ELSE 0

(***************************************************************************)
(* pollutantInfo, airQualityService.ts:95-243.  The description field is   *)
(* left out: no code of the analyzer reads it.                             *)
(***************************************************************************)
pollutantInfoTable ==
    [co |->
        [name |-> "CO", fullName |-> "Carbon Monoxide", unit |-> "ug/m3",
         thresholds |-> [good |-> 4400, fair |-> 9400, moderate |-> 12400, poor |-> 15400],
         healthEffects |-> "Carbon monoxide reduces the blood's ability to carry oxygen. Low levels can cause dizziness, headaches, and fatigue. High levels can be fatal.",
         sources |-> <<"Vehicle exhaust", "Coal and wood burning",
                       "Gas furnaces and stoves", "Industrial processes">>],
     no2 |->
        [name |-> "NO2", fullName |-> "Nitrogen Dioxide", unit |-> "ug/m3",
         thresholds |-> [good |-> 40, fair |-> 70, moderate |-> 150, poor |-> 200],
         healthEffects |-> "NO2 can irritate the respiratory system, worsen asthma, and contribute to the development of respiratory infections. Long-term exposure may lead to respiratory diseases.",
         sources |-> <<"Vehicle emissions", "Power plants",
                       "Industrial processes", "Gas stoves and heaters">>],
     o3 |->
        [name |-> "O3", fullName |-> "Ozone", unit |-> "ug/m3",
         thresholds |-> [good |-> 60, fair |-> 100, moderate |-> 140, poor |-> 180],
         healthEffects |-> "Ozone can cause coughing, throat irritation, chest pain, and reduced lung function. It can worsen asthma, bronchitis, and emphysema.",
         sources |-> <<"Vehicle exhaust", "Industrial emissions", "Chemical solvents",
                       "Created by sunlight reacting with other pollutants">>],
     so2 |->
        [name |-> "SO2", fullName |-> "Sulfur Dioxide", unit |-> "ug/m3",
         thresholds |-> [good |-> 20, fair |-> 80, moderate |-> 250, poor |-> 350],
         healthEffects |-> "SO2 irritates the respiratory system, causing coughing, mucus secretion, and aggravation of asthma. Long-term exposure may contribute to respiratory illnesses.",
         sources |-> <<"Coal and oil burning power plants", "Industrial processes",
                       "Smelters", "Diesel vehicles">>],
     pm2_5 |->
        [name |-> "PM2.5", fullName |-> "Fine Particulate Matter", unit |-> "ug/m3",
         thresholds |-> [good |-> 10, fair |-> 25, moderate |-> 50, poor |-> 75],
         healthEffects |-> "PM2.5 can penetrate deep into the lungs and even enter the bloodstream, causing respiratory and cardiovascular problems, including irregular heartbeat and premature death in people with heart or lung disease.",
         sources |-> <<"Vehicle exhaust", "Power plants", "Wood burning",
                       "Industrial processes", "Wildfires">>],
     pm10 |->
        [name |-> "PM10", fullName |-> "Coarse Particulate Matter", unit |-> "ug/m3",
         thresholds |-> [good |-> 20, fair |-> 50, moderate |-> 100, poor |-> 200],
         healthEffects |-> "PM10 can irritate the eyes, nose, and throat, and can cause respiratory issues, especially for people with existing conditions like asthma.",
         sources |-> <<"Dust from roads and construction", "Agricultural operations",
                       "Industrial processes", "Pollen and mold spores">>],
     nh3 |->
        [name |-> "NH3", fullName |-> "Ammonia", unit |-> "ug/m3",
         thresholds |-> [good |-> 100, fair |-> 200, moderate |-> 400, poor |-> 800],
         healthEffects |-> "Ammonia can irritate the respiratory tract, eyes, and skin. High concentrations can cause coughing and breathing difficulty.",
         sources |-> <<"Agricultural activities", "Livestock waste",
                       "Fertilizer application", "Industrial processes">>]]

\* the keys of the table in the order the object literal declares them
TableOrder == <<"co", "no2", "o3", "so2", "pm2_5", "pm10", "nh3">>

\* the keys of AirPollutionComponents: what the API sends (inputHandle.ts:261-270)
ApiKeys == {"co", "no", "no2", "o3", "so2", "pm2_5", "pm10", "nh3"}

(***************************************************************************)
(* pollutantInfo[key], airQualityService.ts:248.  pollutantInfo is an      *)
(* object literal, so a key that is not one of its own keys is still       *)
(* looked up on Object.prototype: its twelve property names yield a        *)
(* function or an object (truthy, with no thresholds), every other key     *)
(* undefined.                                                              *)
(***************************************************************************)
ObjectPrototypeKeys ==
    {"constructor", "toString", "valueOf", "hasOwnProperty", "isPrototypeOf",
     "propertyIsEnumerable", "toLocaleString", "__proto__",
     "__defineGetter__", "__defineSetter__", "__lookupGetter__", "__lookupSetter__"}

LookupKind(info, key) ==
    IF key \in DOMAIN info THEN "own"
    ELSE IF key \in ObjectPrototypeKeys THEN "inherited"
    ELSE "undefined"

\* Status with the branches tested from the lowest threshold up: the first
\* branch catches every value at or above `good`.
StatusAscending(value, thresholds) ==
    IF value >= thresholds.good THEN "Elevated"
    ELSE IF value >= thresholds.fair THEN "Moderate"
    ELSE IF value >= thresholds.moderate THEN "High"
    ELSE IF value >= thresholds.poor THEN "Very High"
    ELSE "Low"

\* Status with the fair and the moderate thresholds read in each other's
\* place, as for a threshold set that is not ascending.
StatusFairModerateSwapped(value, thresholds) ==
    IF value >= thresholds.poor THEN "Very High"
    ELSE IF value >= thresholds.fair THEN "High"
    ELSE IF value >= thresholds.moderate THEN "Moderate"
    ELSE IF value >= thresholds.good THEN "Elevated"
    ELSE "Low"

(***************************************************************************)
(* The status of a value, airQualityService.ts:251-262.                    *)
(***************************************************************************)
Status(value, thresholds) ==
    IF value >= thresholds.poor THEN "Very High"
    ELSE IF value >= thresholds.moderate THEN "High"
    ELSE IF value >= thresholds.fair THEN "Moderate"
    ELSE IF value >= thresholds.good THEN "Elevated"
    ELSE "Low"

(***************************************************************************)
(* Object.entries(components).map(...).filter(Boolean),                    *)
(* airQualityService.ts:247-272: one result per entry whose key has a      *)
(* definition, in the order of the entries.                                *)
(***************************************************************************)
ResultOf(info, e) ==
    [key |-> e.key,
     name |-> info[e.key].name,
     fullName |-> info[e.key].fullName,
     value |-> e.value,
     unit |-> info[e.key].unit,
     status |-> Status(e.value, info[e.key].thresholds)]

\* Results built by walking the table instead of the entries of the reading.
ResultsInTableOrder(info, entries) ==
    LET present(k) == \E i \in 1..Len(entries) : entries[i].key = k
        keys == SelectSeq(TableOrder, present)
        entryOf(k) == entries[CHOOSE i \in 1..Len(entries) : entries[i].key = k]
    IN  [j \in 1..Len(keys) |-> ResultOf(info, entryOf(keys[j]))]

RECURSIVE Results(_, _)
Results(info, entries) ==
    IF entries = <<>> THEN <<>>
    ELSE LET e == Head(entries)
             rest == Results(info, Tail(entries))
         IN  IF LookupKind(info, e.key) = "own" THEN <<ResultOf(info, e)>> \o rest
             ELSE rest

\* `info` is truthy and has no thresholds: info.thresholds.poor is a TypeError
\* (airQualityService.ts:249-252)
Throws(info, entries) ==
    \E i \in 1..Len(entries) : LookupKind(info, entries[i].key) = "inherited"

\* the filter with Moderate let through
IsSignificantFromModerate(status) ==
    status = "Moderate" \/ status = "High" \/ status = "Very High"

\* the filter with the Very High case forgotten
IsSignificantHighOnly(status) == status = "High"

(***************************************************************************)
(* The filter of lines 279 and 285: High or Very High.                     *)
(***************************************************************************)
IsSignificant(status) == status = "High" \/ status = "Very High"

RECURSIVE SignificantPollutants(_)
SignificantPollutants(results) ==
    IF results = <<>> THEN <<>>
    ELSE LET p == Head(results)
             rest == SignificantPollutants(Tail(results))
         IN  IF IsSignificant(p.status) THEN <<p.name>> \o rest ELSE rest

\* an array push in place of Set.add
SetAddAlways(acc, x) == Append(acc, x)

(***************************************************************************)
(* A JavaScript Set as the sequence of its members in insertion order:     *)
(* add leaves the set alone when the member is there already.              *)
(***************************************************************************)
SetAdd(acc, x) == IF x \in Range(acc) THEN acc ELSE Append(acc, x)

RECURSIVE AddAll(_, _)
AddAll(acc, items) ==
    IF items = <<>> THEN acc
    ELSE AddAll(SetAdd(acc, Head(items)), Tail(items))

\* airQualityService.ts:283-292
RECURSIVE CollectSources(_, _, _)
CollectSources(info, results, allSources) ==
    IF results = <<>> THEN allSources
    ELSE LET p == Head(results)
         IN  IF IsSignificant(p.status)
             THEN CollectSources(info, Tail(results), AddAll(allSources, info[p.key].sources))
             ELSE CollectSources(info, Tail(results), allSources)

\* the sources collected with the filter of the health effects (not Low)
RECURSIVE CollectSourcesOfElevated(_, _, _)
CollectSourcesOfElevated(info, results, allSources) ==
    IF results = <<>> THEN allSources
    ELSE LET p == Head(results)
         IN  IF p.status # "Low"
             THEN CollectSourcesOfElevated(info, Tail(results),
                                           AddAll(allSources, info[p.key].sources))
             ELSE CollectSourcesOfElevated(info, Tail(results), allSources)

PotentialSourcesOfElevated(info, results) == CollectSourcesOfElevated(info, results, <<>>)

PotentialSources(info, results) == CollectSources(info, results, <<>>)

\* airQualityService.ts:295-304
RECURSIVE CollectHealthEffects(_, _, _)
CollectHealthEffects(info, results, healthEffects) ==
    IF results = <<>> THEN healthEffects
    ELSE LET p == Head(results)
         IN  IF p.status # "Low"
             THEN CollectHealthEffects(info, Tail(results),
                                       SetAdd(healthEffects, info[p.key].healthEffects))
             ELSE CollectHealthEffects(info, Tail(results), healthEffects)

\* the health effects collected with the filter of the sources (significant)
RECURSIVE CollectHealthEffectsOfSignificant(_, _, _)
CollectHealthEffectsOfSignificant(info, results, healthEffects) ==
    IF results = <<>> THEN healthEffects
    ELSE LET p == Head(results)
         IN  IF IsSignificant(p.status)
             THEN CollectHealthEffectsOfSignificant(info, Tail(results),
                      SetAdd(healthEffects, info[p.key].healthEffects))
             ELSE CollectHealthEffectsOfSignificant(info, Tail(results), healthEffects)

HealthImplicationsOfSignificant(info, results) ==
    CollectHealthEffectsOfSignificant(info, results, <<>>)

HealthImplications(info, results) == CollectHealthEffects(info, results, <<>>)

(***************************************************************************)
(* analyzePollutants, airQualityService.ts:246-307.  outcome is "returned" *)
(* with the array and its three derived fields, or "threw".                *)
(***************************************************************************)
NotCalled ==
    [outcome |-> "none", results |-> <<>>, significantPollutants |-> <<>>,
     potentialSources |-> <<>>, healthImplications |-> <<>>]

Threw ==
    [outcome |-> "threw", results |-> <<>>, significantPollutants |-> <<>>,
     potentialSources |-> <<>>, healthImplications |-> <<>>]

analyzePollutants(info, entries) ==
    IF Throws(info, entries) THEN Threw
    ELSE LET results == Results(info, entries)
         IN  [outcome |-> "returned",
              results |-> results,
              significantPollutants |-> SignificantPollutants(results),
              potentialSources |-> PotentialSources(info, results),
              healthImplications |-> HealthImplications(info, results)]

(***************************************************************************)
(* services/inputHandle.ts: the second pollutantInfo table, lines 6-105    *)
(* (its sources are one sentence per pollutant, not a list; description    *)
(* left out as above), and the second analyzePollutants, lines 224-254,    *)
(* which reads components.pm2_5, components.o3 and components.no2 and      *)
(* returns concerns and recommendations.                                   *)
(***************************************************************************)
inputHandle_pollutantInfo ==
    [co |->
        [name |-> "CO", fullName |-> "Carbon Monoxide", unit |-> "ug/m3",
         sources |-> "Vehicle exhaust, industrial processes, and wood burning are major sources.",
         healthEffects |-> "Reduces oxygen delivery to organs and tissues, can cause headaches, dizziness, and at high concentrations, death.",
         thresholds |-> [good |-> 4400, fair |-> 9400, moderate |-> 12400, poor |-> 15400]],
     no2 |->
        [name |-> "NO2", fullName |-> "Nitrogen Dioxide", unit |-> "ug/m3",
         sources |-> "Vehicle emissions, power plants, and industrial processes.",
         healthEffects |-> "Can irritate airways, aggravate respiratory diseases, contribute to the development of asthma and potentially increase susceptibility to respiratory infections.",
         thresholds |-> [good |-> 40, fair |-> 70, moderate |-> 150, poor |-> 200]],
     o3 |->
        [name |-> "O3", fullName |-> "Ozone", unit |-> "ug/m3",
         sources |-> "Not directly emitted but formed from reactions involving nitrogen oxides and volatile organic compounds in sunlight.",
         healthEffects |-> "Can cause chest pain, coughing, throat irritation, and airway inflammation. It can worsen bronchitis, emphysema, and asthma.",
         thresholds |-> [good |-> 60, fair |-> 100, moderate |-> 140, poor |-> 180]],
     so2 |->
        [name |-> "SO2", fullName |-> "Sulfur Dioxide", unit |-> "ug/m3",
         sources |-> "Fossil fuel combustion at power plants, industrial processes, and burning high-sulfur containing fuels.",
         healthEffects |-> "Affects the respiratory system, causing irritation and inflammation. Can aggravate asthma and make breathing difficult.",
         thresholds |-> [good |-> 20, fair |-> 80, moderate |-> 250, poor |-> 350]],
     pm2_5 |->
        [name |-> "PM2.5", fullName |-> "Fine Particles", unit |-> "ug/m3",
         sources |-> "Combustion sources, vehicle emissions, industrial processes, and natural sources like dust and wildfires.",
         healthEffects |-> "Can penetrate deep into the lungs and even enter the bloodstream, leading to respiratory and cardiovascular problems, and premature death in people with heart or lung disease.",
         thresholds |-> [good |-> 10, fair |-> 25, moderate |-> 50, poor |-> 75]],
     pm10 |->
        [name |-> "PM10", fullName |-> "Coarse Particles", unit |-> "ug/m3",
         sources |-> "Dust, pollen, mold, and some combustion processes.",
         healthEffects |-> "Can cause respiratory issues, aggravate asthma, and contribute to heart and lung diseases.",
         thresholds |-> [good |-> 20, fair |-> 50, moderate |-> 100, poor |-> 200]],
     nh3 |->
        [name |-> "NH3", fullName |-> "Ammonia", unit |-> "ug/m3",
         sources |-> "Agricultural activities, livestock waste, and fertilizer application.",
         healthEffects |-> "Can irritate the respiratory tract and eyes. Also contributes to the formation of secondary particulate matter.",
         thresholds |-> [good |-> 200, fair |-> 400, moderate |-> 800, poor |-> 1200]]]

\* components.key of a reading: present with a value, or undefined
HasKey(entries, key) == \E i \in 1..Len(entries) : entries[i].key = key

ValueOfKey(entries, key) ==
    entries[CHOOSE i \in 1..Len(entries) : entries[i].key = key].value

\* components.key > limit: false when components.key is undefined
ExceedsLimit(entries, key, limit) ==
    HasKey(entries, key) /\ ValueOfKey(entries, key) > limit

\* inputHandle.ts:228-245, one `if` after the other
inputHandle_concernsOf(entries) ==
    (IF ExceedsLimit(entries, "pm2_5", inputHandle_pollutantInfo["pm2_5"].thresholds.moderate)
     THEN <<"High levels of fine particulate matter (PM2.5)">> ELSE <<>>)
    \o (IF ExceedsLimit(entries, "o3", inputHandle_pollutantInfo["o3"].thresholds.moderate)
        THEN <<"Elevated ozone levels">> ELSE <<>>)
    \o (IF ExceedsLimit(entries, "no2", inputHandle_pollutantInfo["no2"].thresholds.moderate)
        THEN <<"High nitrogen dioxide levels">> ELSE <<>>)

inputHandle_recommendationsOf(entries) ==
    (IF ExceedsLimit(entries, "pm2_5", inputHandle_pollutantInfo["pm2_5"].thresholds.moderate)
     THEN <<"Consider using an air purifier indoors",
            "Limit outdoor activities, especially for sensitive groups">> ELSE <<>>)
    \o (IF ExceedsLimit(entries, "o3", inputHandle_pollutantInfo["o3"].thresholds.moderate)
        THEN <<"Avoid strenuous outdoor activities during peak sun hours">> ELSE <<>>)
    \o (IF ExceedsLimit(entries, "no2", inputHandle_pollutantInfo["no2"].thresholds.moderate)
        THEN <<"Keep windows closed near high-traffic areas">> ELSE <<>>)

\* inputHandle.ts:224-254, with the general advice of lines 248-251
inputHandle_analyzePollutants(entries) ==
    IF inputHandle_concernsOf(entries) = <<>>
    THEN [concerns |-> <<"Air quality is generally acceptable">>,
          recommendations |-> inputHandle_recommendationsOf(entries)
                                  \o <<"Continue normal activities">>]
    ELSE [concerns |-> inputHandle_concernsOf(entries),
          recommendations |-> inputHandle_recommendationsOf(entries)]

(***************************************************************************)
(* The severity the display components give a value.                       *)
(* CurrentDataCard.tsx:34-44 (a text colour class), Dashboard.tsx:165-174  *)
(* (a border colour class), both with >; PollutantDetailsDrawer's          *)
(* getSeverityText, PlaceSearch.tsx:124-138, with >= and "Unknown" for a   *)
(* falsy value (0 included).                                               *)
(***************************************************************************)
CurrentDataCardSeverity(value, thresholds) ==
    IF value > thresholds.poor THEN "text-purple-600 font-bold"
    ELSE IF value > thresholds.moderate THEN "text-red-600 font-bold"
    ELSE IF value > thresholds.fair THEN "text-orange-600"
    ELSE IF value > thresholds.good THEN "text-yellow-600"
    ELSE "text-green-600"

DashboardTileSeverity(value, thresholds) ==
    IF value > thresholds.poor THEN "border-purple-500"
    ELSE IF value > thresholds.moderate THEN "border-red-500"
    ELSE IF value > thresholds.fair THEN "border-orange-500"
    ELSE IF value > thresholds.good THEN "border-yellow-500"
    ELSE "border-green-500"

getSeverityText(value, thresholds) ==
    IF value = 0 THEN "Unknown"
    ELSE IF value >= thresholds.poor THEN "Very Poor"
    ELSE IF value >= thresholds.moderate THEN "Poor"
    ELSE IF value >= thresholds.fair THEN "Moderate"
    ELSE IF value >= thresholds.good THEN "Fair"
    ELSE "Good"

(***************************************************************************)
(* The readings the model draws: at most MaxKeys distinct keys among the   *)
(* API's keys and one key inherited from Object.prototype; for a key with  *)
(* a definition a value of each of the five bands (0, the good threshold,  *)
(* one above the fair threshold, the moderate and the poor thresholds: the *)
(* thresholds themselves are where >= and > differ) and the values of the  *)
(* specification's example.                                                *)
(***************************************************************************)
Keys == ApiKeys \cup {"constructor"}

ExampleValues(key) ==
    IF key = "pm2_5" THEN {60} ELSE IF key = "o3" THEN {40} ELSE {}

SampleValues(key) ==
    IF key \in DOMAIN pollutantInfoTable
    THEN LET t == pollutantInfoTable[key].thresholds
         IN  {0, t.good, t.fair + 1, t.moderate, t.poor} \cup ExampleValues(key)
    ELSE {5}

Pairs == UNION {{[key |-> k, value |-> v] : v \in SampleValues(k)} : k \in Keys}

DistinctKeys(s) == \A i, j \in 1..Len(s) : s[i].key = s[j].key => i = j

Readings ==
    {s \in UNION {[1..n -> Pairs] : n \in 0..MaxKeys} : DistinctKeys(s)}

(***************************************************************************)
(* Calls.  Call(r, op) is one call of analyzePollutants on the reading r:  *)
(* the function assigns nothing outside its own locals, so the table is    *)
(* left alone.  last records the kind of the call and the names the call   *)
(* before it listed.                                                       *)
(***************************************************************************)
Call(r, op) ==
    /\ components' = r
    /\ analysis' = analyzePollutants(pollutantInfo, r)
    /\ last' = [op |-> op, sig |-> analysis.significantPollutants]
    /\ UNCHANGED pollutantInfo

Called == analysis.outcome # "none"

Returned == analysis.outcome = "returned"

\* the first call, on the reading the caller holds
Analyze ==
    /\ ~Called
    /\ Call(components, "analyze")
    /\ UNCHANGED <<first, ncalls>>
    /\ UNCHANGED <<callerVars, badgeVars, fetchVars, imageVars, keyVars, pageVars>>

\* a second call on the same reading
Repeat ==
    /\ Called
    /\ Call(components, "repeat")
    /\ UNCHANGED <<first, ncalls>>
    /\ UNCHANGED <<callerVars, badgeVars, fetchVars, imageVars, keyVars, pageVars>>

\* a call on the reading with the value of entry i raised to v
RaisedTo(r, i, v) == [r EXCEPT ![i].value = v]

Raise(i, v) ==
    /\ Called
    /\ i \in 1..Len(components)
    /\ v \in SampleValues(components[i].key)
    /\ v > components[i].value
    /\ Call(RaisedTo(components, i, v), "raise")
    /\ UNCHANGED <<first, ncalls>>
    /\ UNCHANGED <<callerVars, badgeVars, fetchVars, imageVars, keyVars, pageVars>>

\* a call on the reading with the keys i and i+1 inserted in the other order
Swapped(r, i) == [r EXCEPT ![i] = r[i + 1], ![i + 1] = r[i]]

Permute(i) ==
    /\ Called
    /\ i \in 1..(Len(components) - 1)
    /\ Call(Swapped(components, i), "permute")
    /\ UNCHANGED <<first, ncalls>>
    /\ UNCHANGED <<callerVars, badgeVars, fetchVars, imageVars, keyVars, pageVars>>

\* a call on the reading without the keys that have no definition
RECURSIVE KnownOnly(_, _)
KnownOnly(info, r) ==
    IF r = <<>> THEN <<>>
    ELSE IF Head(r).key \in DOMAIN info THEN <<Head(r)>> \o KnownOnly(info, Tail(r))
    ELSE KnownOnly(info, Tail(r))

Strip ==
    /\ Called
    /\ KnownOnly(pollutantInfo, components) # components
    /\ Call(KnownOnly(pollutantInfo, components), "strip")
    /\ UNCHANGED <<first, ncalls>>
    /\ UNCHANGED <<callerVars, badgeVars, fetchVars, imageVars, keyVars, pageVars>>

NoLast == [op |-> "none", sig |-> <<>>]

NoFirst == [input |-> <<>>, output |-> NotCalled, between |-> 0]

(***************************************************************************)
(* The state of the rest of the program before anything has run: the parts *)
(* the analyzer does not touch.  Each part has its own specification       *)
(* below.                                                                  *)
(***************************************************************************)
\* an object of the heap: its kind ("Array", "Set", "Object" for a reading,
\* "Results" for the array analyzePollutants returns), its elements or
\* entries, and, of a results array, the addresses of the arrays its three
\* named properties refer to (0 while a property is not assigned)
NoRefs == [significantPollutants |-> 0, potentialSources |-> 0, healthImplications |-> 0]

ArrayOf(items) == [kind |-> "Array", items |-> items, props |-> NoRefs]

\* the sources lists of the table (airQualityService.ts:95-244) are the first
\* arrays of the heap, in the order of the table; the address of an object is
\* its index
TableHeap == [a \in 1..Len(TableOrder) |-> ArrayOf(pollutantInfoTable[TableOrder[a]].sources)]

\* the callers of analyzePollutants: two renderings of AnalysisSummary
Callers == {1, 2}

\* a caller: the address of the reading it holds, the entries the reading had
\* when it was passed, what the call returned as it read at the return, the
\* address of the returned array, the first address that was free when the
\* call began, the number of the call, and whether the caller has pushed
\* onto an array it was returned
IdleCaller ==
    [stage |-> "idle", reading |-> 0, passed |-> <<>>, received |-> NotCalled,
     result |-> 0, free |-> 0, at |-> 0, touched |-> FALSE]

CallersIdle ==
    /\ heap = TableHeap
    /\ callers = [c \in Callers |-> IdleCaller]

NoBadge == [category |-> "", colorClass |-> "", inputHandle |-> [category |-> "", colorClass |-> ""]]

BadgeIdle ==
    /\ aqi = 0
    /\ badge = NoBadge

\* an optional argument or field: <<>> when undefined, <<v>> when v
Undefined == <<>>

NoResponse == [rejected |-> FALSE, ok |-> FALSE, json |-> FALSE, list |-> <<>>]

NoFetchCall ==
    [lat |-> 0, lon |-> 0, type |-> Undefined, historyStart |-> Undefined,
     historyEnd |-> Undefined, stored |-> Undefined, requests |-> <<>>,
     outcome |-> "none", response |-> NoResponse, value |-> Undefined]

Components == {"Dashboard", "HistoricalDataChart", "AirQualityMap", "PlaceSearch"}

NoToast == [kind |-> "none", text |-> ""]

\* a component that fetches: its loading flag, its runs in flight (each at an
\* await), the latest toast it showed, the data it holds (one reading or place,
\* a list of readings), whether the run that ended last met a failed request
\* and whether an error left the handler.  Of HistoricalDataChart, which
\* Dashboard mounts and unmounts, the record holds the state of the mounted
\* chart (the state a chart is mounted with when none is), and a run is live
\* when the chart that started it is still mounted
IdleComponent ==
    [loading |-> FALSE, runs |-> <<>>, toast |-> NoToast, current |-> Undefined,
     list |-> <<>>, failed |-> FALSE, escaped |-> FALSE]

\* the components as mounted; Dashboard holds, besides, the tab its Tabs show
\* (Dashboard.tsx:136: defaultValue="forecast")
IdleUi ==
    [c \in Components |->
        IF c = "Dashboard" THEN [tab |-> "forecast"] @@ IdleComponent ELSE IdleComponent]

FetchIdle ==
    /\ fetchCall = NoFetchCall
    /\ ui = IdleUi

ImagesIdle ==
    /\ component = "src/components/ImageAnalysis.tsx"
    /\ images = <<>>
    /\ previews = <<>>
    /\ revoked = {}
    /\ notice = "none"
    /\ isAnalyzing = "no"
    /\ geminiApiKey = ""

\* API_KEY_STORAGE_KEY of airQualityService.ts:3 and of inputHandle.ts:3
StorageKeys == {"openweather_api_key", "openweather-api-key"}

NoKeySettled ==
    [module |-> "", key |-> "", ok |-> FALSE,
     before |-> [k \in StorageKeys |-> Undefined], returned |-> Undefined]

KeysIdle ==
    /\ localStorage = [k \in StorageKeys |-> Undefined]
    /\ keyCalls = <<>>
    /\ keySettled = NoKeySettled

\* coordinates are in thousandths of a degree
London == [lat |-> 51505, lon |-> -90]

\* the decimal numerals the page reads and writes, with their values
Decimals ==
    {<<"51.505", 51505>>, <<"-0.09", -90>>, <<"18.52", 18520>>, <<"73.856", 73856>>,
     <<"45", 45000>>, <<"90", 90000>>, <<"-90", -90000>>, <<"90.001", 90001>>,
     <<"-90.001", -90001>>, <<"180", 180000>>, <<"-180", -180000>>,
     <<"180.001", 180001>>, <<"-180.001", -180001>>}

\* Number.prototype.toString
toString(n) == (CHOOSE d \in Decimals : d[2] = n)[1]

\* Dashboard.tsx:19-25; address is the address of the coordinates object
IdleDashboard ==
    [coordinates |-> London, address |-> 1, currentData |-> Undefined,
     forecastData |-> <<>>, isLoading |-> FALSE, runs |-> <<>>]

\* the three sources of AirQualityMap, by their lines in part_000
MapSources == {"part_000:1-193", "part_000:195-473", "part_000:475-731"}

\* part_000:72-74, 261-265, 548-552; source is the source the page is built
\* with, geolocation is "none", "pending" or "answered", runs holds the runs
\* of the map's fetchData in flight and searches the runs of its
\* handlePlaceSearch, each at an await, and address is the address of the
\* currentLocation object.  The source at 1-193 has no mapInitialized state
\* and no search
IdleMap ==
    [source |-> "part_000:1-193", currentLocation |-> London, address |-> 0,
     geolocation |-> "none", mapInitialized |-> FALSE, currentData |-> Undefined,
     isLoading |-> FALSE, runs |-> <<>>, searches |-> <<>>]

\* CoordinateInput.tsx:16-18, given Dashboard's coordinates, with the state
\* of the PlaceSearch it renders (PlaceSearch.tsx:15): searching, and search,
\* the run of handlePlaceSearch at its await
IdleCoordinateInput ==
    [lat |-> toString(London.lat), lon |-> toString(London.lon), isLoading |-> FALSE,
     searching |-> FALSE, search |-> <<>>]

PageIdle ==
    /\ searchParams = Undefined
    /\ mounted = FALSE
    /\ dashboard = IdleDashboard
    /\ airQualityMap = IdleMap
    /\ coordinateInput = IdleCoordinateInput
    /\ pageToast = NoToast

AnalyzerIdle ==
    /\ pollutantInfo = pollutantInfoTable
    /\ components = <<>>
    /\ analysis = NotCalled
    /\ last = NoLast
    /\ first = NoFirst
    /\ ncalls = 0

Init ==
    /\ pollutantInfo = pollutantInfoTable
    /\ components \in Readings
    /\ analysis = NotCalled
    /\ last = NoLast
    /\ first = NoFirst
    /\ ncalls = 0
    /\ CallersIdle
    /\ BadgeIdle
    /\ FetchIdle
    /\ ImagesIdle
    /\ KeysIdle
    /\ PageIdle

Next ==
    \/ Analyze
    \/ Repeat
    \/ \E i \in 1..Len(components) :
          \E v \in SampleValues(components[i].key) : Raise(i, v)
    \/ \E i \in 1..(Len(components) - 1) : Permute(i)
    \/ Strip

Spec == Init /\ [][Next]_vars

(***************************************************************************)
(* Calls of analyzePollutants executed on the heap.  The objects a call    *)
(* can reach are in the heap: the sources lists of the module's table, the *)
(* reading it is passed (`data.components` of AnalysisSummary,             *)
(* part_000:744), and what it allocates.  A call runs the statements of    *)
(* airQualityService.ts:246-307 in their order, each reading and writing   *)
(* the heap at the addresses its names hold; it runs to completion (the    *)
(* function is synchronous), and the calls of the callers interleave call  *)
(* by call, in any order.  A caller keeps the array it was returned by     *)
(* address and may push a string onto one of the arrays of the result.     *)
(* An object that no name and no object in use refers to leaves the heap,  *)
(* and its address may be used again.  At most MaxCalls calls are made.    *)
(* first keeps the reading and the result of the first call and whether a  *)
(* call on another reading was made since.                                 *)
(***************************************************************************)
CallerReadings ==
    {<<>>,
     <<[key |-> "pm2_5", value |-> 60]>>,
     <<[key |-> "pm2_5", value |-> 60], [key |-> "o3", value |-> 150]>>,
     <<[key |-> "co", value |-> 12400], [key |-> "no", value |-> 5]>>}

\* an address no object of the heap has
NextAddress(h) == (CHOOSE a \in DOMAIN h : \A b \in DOMAIN h : b <= a) + 1

ResultFields == {"significantPollutants", "potentialSources", "healthImplications"}

SetOf(items) == [kind |-> "Set", items |-> items, props |-> NoRefs]

\* the module's table as a call reads it: pollutantInfo[key], with
\* info.sources the array found at its address
TableOver(info, h) ==
    [k \in DOMAIN info |-> [info[k] EXCEPT !.sources = h[IndexOf(TableOrder, k)].items]]

\* the names of a call that has begun: the heap, the argument, and the
\* addresses its locals hold once they are declared
Frame(h, argument) ==
    [heap |-> h, base |-> NextAddress(h), components |-> argument, analysisResults |-> 0,
     allSources |-> 0, healthEffects |-> 0]

\* the results kept in one array that the module declares once, at an address
\* of its own: a call pushes its results onto what the calls before it left
\* and returns that array
MapEntriesAccumulating(m) ==
    LET declared == -1
        left == IF declared \in DOMAIN m.heap THEN m.heap[declared].items ELSE <<>>
        info == TableOver(pollutantInfoTable, m.heap)
    IN  [m EXCEPT !.heap = (declared :>
                               [kind |-> "Results",
                                items |-> left \o Results(info, m.heap[m.components].items),
                                props |-> NoRefs]) @@ m.heap,
                  !.analysisResults = declared]

\* lines 247-274: Object.entries(components).map(...).filter(Boolean) reads
\* the entries of the argument and the table and returns a new array, which
\* results and analysisResults name (the arrays of Object.entries and of map
\* are held by no name)
MapEntries(m) ==
    LET at == NextAddress(m.heap)
        info == TableOver(pollutantInfoTable, m.heap)
    IN  [m EXCEPT !.heap = (at :> [kind |-> "Results",
                                   items |-> Results(info, m.heap[m.components].items),
                                   props |-> NoRefs]) @@ m.heap,
                  !.analysisResults = at]

\* lines 277-280: analysisResults.significantPollutants is the new array of
\* filter(...).map(p => p.name)
ListSignificant(m) ==
    LET at == NextAddress(m.heap)
        names == SignificantPollutants(m.heap[m.analysisResults].items)
    IN  [m EXCEPT !.heap = [((at :> ArrayOf(names)) @@ m.heap) EXCEPT
                               ![m.analysisResults].props.significantPollutants = at]]

\* the Set of the sources declared once, by the module: every call adds to
\* the Set the first call made
NewAllSourcesOnce(m) ==
    LET declared == -1
    IN  IF declared \in DOMAIN m.heap
        THEN [m EXCEPT !.allSources = declared]
        ELSE [m EXCEPT !.heap = (declared :> SetOf(<<>>)) @@ m.heap,
                       !.allSources = declared]

\* line 283: const allSources = new Set<string>()
NewAllSources(m) ==
    LET at == NextAddress(m.heap)
    IN  [m EXCEPT !.heap = (at :> SetOf(<<>>)) @@ m.heap, !.allSources = at]

\* lines 284-291: for every significant result, info.sources.forEach(source
\* => allSources.add(source)): the sources lists are read, the Set is written
AddSources(m) ==
    [m EXCEPT !.heap[m.allSources].items =
                  CollectSources(TableOver(pollutantInfoTable, m.heap),
                                 m.heap[m.analysisResults].items, @)]

\* potentialSources taken from the table when one pollutant only is
\* significant: analysisResults.potentialSources = info.sources, without a copy
AssignSourcesOfTable(m) ==
    LET results == m.heap[m.analysisResults].items
        significant == {j \in 1..Len(results) : IsSignificant(results[j].status)}
        at == NextAddress(m.heap)
    IN  IF Cardinality(significant) = 1
        THEN [m EXCEPT !.heap[m.analysisResults].props.potentialSources =
                           IndexOf(TableOrder, results[CHOOSE j \in significant : TRUE].key)]
        ELSE [m EXCEPT !.heap = [((at :> ArrayOf(m.heap[m.allSources].items)) @@ m.heap)
                                    EXCEPT ![m.analysisResults].props.potentialSources = at]]

\* line 292: analysisResults.potentialSources = Array.from(allSources), a new
\* array with the elements of the Set
AssignPotentialSources(m) ==
    LET at == NextAddress(m.heap)
    IN  [m EXCEPT !.heap = [((at :> ArrayOf(m.heap[m.allSources].items)) @@ m.heap) EXCEPT
                               ![m.analysisResults].props.potentialSources = at]]

\* line 295: const healthEffects = new Set<string>()
NewHealthEffects(m) ==
    LET at == NextAddress(m.heap)
    IN  [m EXCEPT !.heap = (at :> SetOf(<<>>)) @@ m.heap, !.healthEffects = at]

\* lines 296-303: for every result above Low, healthEffects.add(info.healthEffects)
AddHealthEffects(m) ==
    [m EXCEPT !.heap[m.healthEffects].items =
                  CollectHealthEffects(TableOver(pollutantInfoTable, m.heap),
                                       m.heap[m.analysisResults].items, @)]

\* line 304: analysisResults.healthImplications = Array.from(healthEffects)
AssignHealthImplications(m) ==
    LET at == NextAddress(m.heap)
    IN  [m EXCEPT !.heap = [((at :> ArrayOf(m.heap[m.healthEffects].items)) @@ m.heap) EXCEPT
                               ![m.analysisResults].props.healthImplications = at]]

\* line 306: return analysisResults.  The call is left: of the objects it
\* allocated, those that the returned array does not refer to (the two Sets)
\* are referred to by nothing
Return(m) ==
    LET kept == {a \in DOMAIN m.heap :
                    \/ a < m.base
                    \/ a = m.analysisResults
                    \/ \E f \in ResultFields : a = m.heap[m.analysisResults].props[f]}
    IN  [heap |-> [a \in kept |-> m.heap[a]], returned |-> m.analysisResults]

\* analyzePollutants(components), lines 246-307, on the heap h with the
\* object of the argument at this address: the heap it leaves and the
\* address of the array it returns (line 306), 0 when the callback of map
\* threw (line 252, before any name was bound)
analyzePollutantsOn(h, argument) ==
    IF Throws(TableOver(pollutantInfoTable, h), h[argument].items)
    THEN [heap |-> h, returned |-> 0]
    ELSE Return(AssignHealthImplications(
                    AddHealthEffects(
                        NewHealthEffects(
                            AssignPotentialSources(
                                AddSources(
                                    NewAllSources(
                                        ListSignificant(
                                            MapEntries(Frame(h, argument))))))))))

\* what the array at address a and the arrays of its properties hold
ReadResult(h, a) ==
    IF a = 0 THEN Threw
    ELSE [outcome |-> "returned",
          results |-> h[a].items,
          significantPollutants |-> h[h[a].props.significantPollutants].items,
          potentialSources |-> h[h[a].props.potentialSources].items,
          healthImplications |-> h[h[a].props.healthImplications].items]

\* the addresses of the array a caller was returned and of the arrays of its
\* three properties
ArraysOf(c) ==
    IF callers[c].result = 0 THEN {}
    ELSE {callers[c].result}
             \cup {heap[callers[c].result].props[f] : f \in ResultFields}

\* the heap once caller c has let go of what it held: what the module and the
\* other callers hold
LiveWithout(c) ==
    LET live == {a \in DOMAIN heap :
                    \/ a <= Len(TableOrder)
                    \/ \E d \in Callers \ {c} : a = callers[d].reading \/ a \in ArraysOf(d)}
    IN  [a \in live |-> heap[a]]

\* the caller obtains a reading, a new object, and lets go of the reading and
\* of the result it held
Obtain(c, r) ==
    /\ callers[c].stage \in {"idle", "answered"}
    /\ ncalls < MaxCalls
    /\ LET at == NextAddress(LiveWithout(c))
       IN  /\ heap' = (at :> [kind |-> "Object", items |-> r, props |-> NoRefs])
                           @@ LiveWithout(c)
           /\ callers' = [callers EXCEPT ![c] =
                             [IdleCaller EXCEPT !.stage = "ready", !.reading = at]]
    /\ UNCHANGED <<analyzerVars, badgeVars, fetchVars, imageVars, keyVars, pageVars>>

\* part_000:744: the caller calls analyzePollutants(data.components) and
\* keeps what it returns
Invoke(c) ==
    /\ callers[c].stage = "ready"
    /\ LET passed == heap[callers[c].reading].items
           run == analyzePollutantsOn(heap, callers[c].reading)
           got == ReadResult(run.heap, run.returned)
       IN  /\ heap' = run.heap
           /\ callers' = [callers EXCEPT ![c] =
                             [stage |-> "answered",
                              reading |-> callers[c].reading,
                              passed |-> passed,
                              received |-> got,
                              result |-> run.returned,
                              free |-> NextAddress(heap),
                              at |-> ncalls + 1,
                              touched |-> FALSE]]
           /\ first' = IF ncalls = 0
                       THEN [input |-> passed, output |-> got, between |-> 0]
                       ELSE IF passed # first.input
                       THEN [first EXCEPT !.between = 1]
                       ELSE first
    /\ pollutantInfo' = TableOver(pollutantInfo, heap')
    /\ ncalls' = ncalls + 1
    /\ UNCHANGED <<components, analysis, last, badgeVars, fetchVars, imageVars, keyVars,
                   pageVars>>

\* the caller pushes a string onto one of the arrays of the result it holds
Push(c, field, x) ==
    /\ callers[c].stage = "answered"
    /\ callers[c].result # 0
    /\ ~callers[c].touched
    /\ heap' = [heap EXCEPT ![heap[callers[c].result].props[field]].items = Append(@, x)]
    /\ pollutantInfo' = TableOver(pollutantInfo, heap')
    /\ callers' = [callers EXCEPT ![c].touched = TRUE]
    /\ UNCHANGED <<components, analysis, last, first, ncalls,
                   badgeVars, fetchVars, imageVars, keyVars, pageVars>>

CallersInit ==
    /\ AnalyzerIdle
    /\ CallersIdle
    /\ BadgeIdle
    /\ FetchIdle
    /\ ImagesIdle
    /\ KeysIdle
    /\ PageIdle

CallersNext ==
    \/ \E c \in Callers, r \in CallerReadings : Obtain(c, r)
    \/ \E c \in Callers : Invoke(c)
    \/ \E c \in Callers, field \in ResultFields : Push(c, field, "pushed by the caller")

CallersSpec == CallersInit /\ [][CallersNext]_vars

\* what a caller holds, read through the heap
Held(c) == ReadResult(heap, callers[c].result)


(***************************************************************************)
(* The AQI badge.  getAQICategory and getAQIColorClass of                  *)
(* airQualityService.ts:59-92 and their copies of inputHandle.ts:188-221,  *)
(* applied to data.main.aqi as AnalysisSummary does for its badge          *)
(* (part_000:745-753).                                                     *)
(***************************************************************************)
\* getAQICategory with the `return` of case 4 missing: the case falls through
getAQICategoryFallingThrough(a) ==
    CASE a = 1 -> "Good"
      [] a = 2 -> "Fair"
      [] a = 3 -> "Moderate"
      [] a = 4 -> "Very Poor"
      [] a = 5 -> "Very Poor"
      [] OTHER -> "Unknown"

getAQICategory(a) ==
    CASE a = 1 -> "Good"
      [] a = 2 -> "Fair"
      [] a = 3 -> "Moderate"
      [] a = 4 -> "Poor"
      [] a = 5 -> "Very Poor"
      [] OTHER -> "Unknown"

getAQIColorClass(a) ==
    CASE a = 1 -> "bg-aqi-good text-green-900"
      [] a = 2 -> "bg-aqi-fair text-yellow-900"
      [] a = 3 -> "bg-aqi-moderate text-orange-900"
      [] a = 4 -> "bg-aqi-poor text-red-900"
      [] a = 5 -> "bg-aqi-verypoor text-purple-900"
      [] OTHER -> "bg-gray-300 text-gray-800"

inputHandle_getAQICategory(a) ==
    CASE a = 1 -> "Good"
      [] a = 2 -> "Fair"
      [] a = 3 -> "Moderate"
      [] a = 4 -> "Poor"
      [] a = 5 -> "Very Poor"
      [] OTHER -> "Unknown"

inputHandle_getAQIColorClass(a) ==
    CASE a = 1 -> "bg-green-500 text-white"
      [] a = 2 -> "bg-yellow-500 text-black"
      [] a = 3 -> "bg-orange-500 text-white"
      [] a = 4 -> "bg-red-500 text-white"
      [] a = 5 -> "bg-purple-500 text-white"
      [] OTHER -> "bg-gray-500 text-white"

AqiInputs == (-MaxAqi)..MaxAqi

\* the badge is rendered for the index of the reading
RenderBadge ==
    /\ badge = NoBadge
    /\ badge' = [category |-> getAQICategory(aqi),
                 colorClass |-> getAQIColorClass(aqi),
                 inputHandle |-> [category |-> inputHandle_getAQICategory(aqi),
                                  colorClass |-> inputHandle_getAQIColorClass(aqi)]]
    /\ UNCHANGED <<aqi, analyzerVars, callerVars, fetchVars, imageVars, keyVars, pageVars>>

\* a reading with another index arrives
NewIndex(a) ==
    /\ badge # NoBadge
    /\ a # aqi
    /\ aqi' = a
    /\ badge' = NoBadge
    /\ UNCHANGED <<analyzerVars, callerVars, fetchVars, imageVars, keyVars, pageVars>>

BadgeInit ==
    /\ aqi \in AqiInputs
    /\ badge = NoBadge
    /\ AnalyzerIdle
    /\ CallersIdle
    /\ FetchIdle
    /\ ImagesIdle
    /\ KeysIdle
    /\ PageIdle

BadgeNext ==
    \/ RenderBadge
    \/ \E a \in AqiInputs : NewIndex(a)

BadgeSpec == BadgeInit /\ [][BadgeNext]_vars

(***************************************************************************)
(* fetchAirQualityData, airQualityService.ts:310-347.  The URL it builds   *)
(* is kept as a record of its parts; an optional argument is <<>> when     *)
(* undefined.  What fetch answers is one of: a rejection (no response), a  *)
(* response that is not ok, a response that is ok with a body whose list   *)
(* holds the timestamped readings.                                         *)
(***************************************************************************)
DEFAULT_API_KEY == "11ea526c4df54f749a4175954232011"

\* localStorage.getItem(API_KEY_STORAGE_KEY): null, "" or a key
StoredKeys == {Undefined, <<"">>, <<"user-key">>}

\* airQualityService.ts:7-9: the stored key, or the default when it is falsy
getApiKey(stored) ==
    IF stored = Undefined \/ stored[1] = "" THEN DEFAULT_API_KEY ELSE stored[1]

\* !historyStart: undefined or 0
Falsy(opt) == opt = Undefined \/ opt[1] = 0

\* the default of the parameter `type`
TypeOr(optType) == IF optType = Undefined THEN "current" ELSE optType[1]

ThrownBeforeRequest ==
    [threw |-> TRUE, path |-> "", lat |-> 0, lon |-> 0,
     start |-> Undefined, end |-> Undefined, appid |-> ""]

\* the switch with the range put in the URL whatever the type
BuildRequestWithRange(lat, lon, optType, historyStart, historyEnd, apiKey) ==
    CASE TypeOr(optType) = "forecast" ->
             [threw |-> FALSE, path |-> "/forecast", lat |-> lat, lon |-> lon,
              start |-> historyStart, end |-> historyEnd, appid |-> apiKey]
      [] TypeOr(optType) = "historical" ->
             IF Falsy(historyStart) \/ Falsy(historyEnd) THEN ThrownBeforeRequest
             ELSE [threw |-> FALSE, path |-> "/history", lat |-> lat, lon |-> lon,
                   start |-> historyStart, end |-> historyEnd, appid |-> apiKey]
      [] OTHER ->
             [threw |-> FALSE, path |-> "", lat |-> lat, lon |-> lon,
              start |-> historyStart, end |-> historyEnd, appid |-> apiKey]

\* the switch of lines 324-338: the URL, or the error thrown before any request
BuildRequest(lat, lon, optType, historyStart, historyEnd, apiKey) ==
    CASE TypeOr(optType) = "forecast" ->
             [threw |-> FALSE, path |-> "/forecast", lat |-> lat, lon |-> lon,
              start |-> Undefined, end |-> Undefined, appid |-> apiKey]
      [] TypeOr(optType) = "historical" ->
             IF Falsy(historyStart) \/ Falsy(historyEnd) THEN ThrownBeforeRequest
             ELSE [threw |-> FALSE, path |-> "/history", lat |-> lat, lon |-> lon,
                   start |-> historyStart, end |-> historyEnd, appid |-> apiKey]
      [] OTHER ->
             [threw |-> FALSE, path |-> "", lat |-> lat, lon |-> lon,
              start |-> Undefined, end |-> Undefined, appid |-> apiKey]

\* a timestamped reading of a response: dt and main.aqi
Reading1 == [dt |-> 1700000000, aqi |-> 2]

Reading2 == [dt |-> 1700003600, aqi |-> 4]

Lists == {<<>>, <<Reading1>>, <<Reading1, Reading2>>}

\* fetch rejects: there is no response
Rejected == [rejected |-> TRUE, ok |-> FALSE, json |-> FALSE, list |-> <<>>]

\* a response that is not ok, with a JSON body that holds no list
NotOk == [rejected |-> FALSE, ok |-> FALSE, json |-> TRUE, list |-> <<>>]

\* a response that is not ok, with a body response.json() cannot parse
NotOkNoJson == [rejected |-> FALSE, ok |-> FALSE, json |-> FALSE, list |-> <<>>]

\* an ok response with a body response.json() cannot parse
OkNoJson == [rejected |-> FALSE, ok |-> TRUE, json |-> FALSE, list |-> <<>>]

Ok(list) == [rejected |-> FALSE, ok |-> TRUE, json |-> TRUE, list |-> list]

Responses == {Rejected, NotOk, NotOkNoJson, OkNoJson} \cup {Ok(l) : l \in Lists}

\* lines 340-346, as the caller that awaits the call sees it settle: the
\* awaited fetch rejects, or the response is not ok, or response.json()
\* rejects, or what response.json() gives is returned
FetchSettles(resp) ==
    IF resp.rejected THEN [outcome |-> "threw", value |-> Undefined]
    ELSE IF ~resp.ok THEN [outcome |-> "threw", value |-> Undefined]
    ELSE IF ~resp.json THEN [outcome |-> "threw", value |-> Undefined]
    ELSE [outcome |-> "returned", value |-> <<[list |-> resp.list]>>]

Types == {Undefined, <<"current">>, <<"forecast">>, <<"historical">>}

Timestamps == {Undefined, <<0>>, <<1700000000>>}

\* a call of fetchAirQualityData up to its await: the error of line 330, or the
\* request issued
CallFetch(lat, lon, optType, historyStart, historyEnd) ==
    /\ fetchCall.outcome \notin {"pending", "parsing"}
    /\ LET request == BuildRequest(lat, lon, optType, historyStart, historyEnd,
                                   getApiKey(fetchCall.stored))
       IN  fetchCall' = [lat |-> lat, lon |-> lon, type |-> optType,
                         historyStart |-> historyStart, historyEnd |-> historyEnd,
                         stored |-> fetchCall.stored,
                         requests |-> IF request.threw THEN <<>> ELSE <<request>>,
                         outcome |-> IF request.threw THEN "threw" ELSE "pending",
                         response |-> NoResponse,
                         value |-> Undefined]
    /\ UNCHANGED <<ui, analyzerVars, callerVars, badgeVars, imageVars, keyVars, pageVars>>

\* lines 340-346: the call resumes with what fetch answered, and throws or
\* goes on to await response.json()
FetchAnswered(resp) ==
    /\ fetchCall.outcome = "pending"
    /\ fetchCall' = [fetchCall EXCEPT !.outcome = IF resp.rejected \/ ~resp.ok
                                                  THEN "threw" ELSE "parsing",
                                      !.response = resp]
    /\ UNCHANGED <<ui, analyzerVars, callerVars, badgeVars, imageVars, keyVars, pageVars>>

\* line 346: the call resumes with what response.json() gave
BodyParsed ==
    /\ fetchCall.outcome = "parsing"
    /\ fetchCall' = [fetchCall EXCEPT !.outcome = FetchSettles(fetchCall.response).outcome,
                                      !.value = FetchSettles(fetchCall.response).value]
    /\ UNCHANGED <<ui, analyzerVars, callerVars, badgeVars, imageVars, keyVars, pageVars>>

ServiceInit ==
    /\ fetchCall \in {[NoFetchCall EXCEPT !.stored = k] : k \in StoredKeys}
    /\ ui = IdleUi
    /\ AnalyzerIdle
    /\ CallersIdle
    /\ BadgeIdle
    /\ ImagesIdle
    /\ KeysIdle
    /\ PageIdle

ServiceNext ==
    \/ \E optType \in Types, historyStart \in Timestamps, historyEnd \in Timestamps :
          CallFetch(51, 0, optType, historyStart, historyEnd)
    \/ \E resp \in Responses : FetchAnswered(resp)
    \/ BodyParsed

ServiceSpec == ServiceInit /\ [][ServiceNext]_vars

(***************************************************************************)
(* The components that fetch.  A handler runs up to its await, and resumes *)
(* when fetch has answered; runs of an effect overlap when its dependency  *)
(* changes while a request is in flight (at most MaxInFlight at a time),   *)
(* and answers come in any order.  The two forms are submitted by buttons  *)
(* that are disabled while their flag is set.  Dashboard renders           *)
(* HistoricalDataChart inside the tab "historical" of the Tabs it shows    *)
(* when it is not loading and holds a reading: a render without the Tabs,  *)
(* or with another tab selected, unmounts the chart, whose state is gone   *)
(* while its request stays in flight.                                      *)
(***************************************************************************)
\* every component outside cs is as mounted
Alone(cs) == \A d \in Components \ cs : ui[d] = IdleUi[d]

\* Dashboard.tsx:119-136: the Tabs are rendered when isLoading is false and
\* currentData is not null
TabsShown(u) == ~u["Dashboard"].loading /\ u["Dashboard"].current # Undefined

\* Dashboard.tsx:153-155: the chart is the content of the tab "historical";
\* the content of a tab that is not selected is not rendered
ChartMounted(u) == TabsShown(u) /\ u["Dashboard"].tab = "historical"

\* the chart unmounted: its state (HistoricalDataChart.tsx:22-28) is gone, a
\* chart mounted later starts from the initial one; the requests in flight
\* stay, and the toasts shown stay on the page
Unmounted(h) ==
    [h EXCEPT !.loading = FALSE,
              !.list = <<>>,
              !.runs = [i \in 1..Len(h.runs) |-> [h.runs[i] EXCEPT !.live = FALSE]]]

\* Dashboard.tsx:119-154, the render after a change of isLoading or
\* currentData: without the Tabs the chart is unmounted, and the Tabs are
\* mounted again with their default tab
Render(u) ==
    IF TabsShown(u) THEN u
    ELSE [u EXCEPT !["Dashboard"].tab = "forecast",
                   !["HistoricalDataChart"] = Unmounted(@)]

\* Dashboard.tsx:137-141: a tab other than the selected one is clicked
SelectTab(tab) ==
    /\ TabsShown(ui)
    /\ tab # ui["Dashboard"].tab
    /\ ui' = [ui EXCEPT !["Dashboard"].tab = tab,
                        !["HistoricalDataChart"] =
                            IF ui["Dashboard"].tab = "historical" THEN Unmounted(@) ELSE @]
    /\ UNCHANGED <<fetchCall, analyzerVars, callerVars, badgeVars, imageVars, keyVars, pageVars>>

Toast(kind, text) == [kind |-> kind, text |-> text]

RemoveAt(s, i) == SubSeq(s, 1, i - 1) \o SubSeq(s, i + 1, Len(s))

\* the request failed: fetch rejected, or the response is not ok
Failure(resp) == resp.rejected \/ ~resp.ok

\* a run at the await of a call of fetchAirQualityData: early when the call
\* threw before any request
RunAt(stage, optType, historyStart, historyEnd) ==
    [stage |-> stage,
     early |-> BuildRequest(51, 0, optType, historyStart, historyEnd,
                            getApiKey(fetchCall.stored)).threw]

\* what the awaited call gives the run
Awaited(run, resp) ==
    IF run.early THEN [outcome |-> "threw", value |-> Undefined] ELSE FetchSettles(resp)

\* Dashboard.tsx:53-59: the effect of [coordinates], up to the first await,
\* and the render with isLoading true
DashboardFetchData ==
    /\ Len(ui["Dashboard"].runs) < MaxInFlight
    /\ ui' = Render([ui EXCEPT !["Dashboard"] =
                  [@ EXCEPT !.loading = TRUE,
                            !.runs = Append(@, RunAt("current", <<"current">>,
                                                     Undefined, Undefined)),
                            !.failed = FALSE]])
    /\ UNCHANGED <<fetchCall, analyzerVars, callerVars, badgeVars, imageVars, keyVars, pageVars>>

\* Dashboard.tsx:59-80: run i resumes after the current or the forecast
\* request, and the render that follows
DashboardAnswered(i, resp) ==
    /\ i \in 1..Len(ui["Dashboard"].runs)
    /\ LET d == ui["Dashboard"]
           run == d.runs[i]
           got == Awaited(run, resp)
       IN  ui' = Render([ui EXCEPT !["Dashboard"] =
               IF got.outcome = "threw"
               THEN [d EXCEPT !.toast = Toast("error", "Failed to fetch air quality data"),
                              !.loading = FALSE,
                              !.runs = RemoveAt(d.runs, i),
                              !.failed = ~run.early /\ Failure(resp),
                              !.escaped = FALSE]
               ELSE IF run.stage = "current"
               THEN [d EXCEPT !.current = IF Len(got.value[1].list) > 0
                                          THEN <<got.value[1].list[1]>> ELSE Undefined,
                              !.runs[i] = RunAt("forecast", <<"forecast">>,
                                                Undefined, Undefined)]
               ELSE [d EXCEPT !.list = got.value[1].list,
                              !.loading = FALSE,
                              !.runs = RemoveAt(d.runs, i),
                              !.failed = FALSE]])
    /\ UNCHANGED <<fetchCall, analyzerVars, callerVars, badgeVars, imageVars, keyVars, pageVars>>

\* what startDate and endDate hold: no date (the selected day clicked again)
\* or a Date, an instant, held as its whole seconds since the epoch and the
\* milliseconds within the second.  A chart is mounted with now and 7 days
\* before now (lines 23-26); a day picked in a calendar (lines 164-173 and
\* 197-207: from 2020-11-27 to now) is the midnight of the day in the zone of
\* the browser.  With now = 2026-10-30T08:00:00.250Z: the two dates as
\* mounted; the midnights of 2026-09-30 and 2026-10-30 in UTC, 30 days apart;
\* those of Europe/Berlin, 30 days and an hour apart (summer time ends in
\* between); the midnight of 2026-09-30 in UTC-8, 30 days and 250 ms before
\* now; the midnight of 2026-10-31 in UTC, picked in a page left open
Dates ==
    {Undefined,
     <<[seconds |-> 1792742400, millis |-> 250]>>,
     <<[seconds |-> 1793347200, millis |-> 250]>>,
     <<[seconds |-> 1790726400, millis |-> 0]>>,
     <<[seconds |-> 1793318400, millis |-> 0]>>,
     <<[seconds |-> 1790719200, millis |-> 0]>>,
     <<[seconds |-> 1793314800, millis |-> 0]>>,
     <<[seconds |-> 1790755200, millis |-> 0]>>,
     <<[seconds |-> 1793404800, millis |-> 0]>>}

\* line 37: startDate > endDate, the instants compared
After(a, b) ==
    a.seconds > b.seconds \/ (a.seconds = b.seconds /\ a.millis > b.millis)

\* line 42: endDate.getTime() - startDate.getTime(), of an endDate that is
\* not before startDate, in seconds and milliseconds
timeDiff(startDate, endDate) ==
    IF endDate[1].millis >= startDate[1].millis
    THEN [seconds |-> endDate[1].seconds - startDate[1].seconds,
          millis |-> endDate[1].millis - startDate[1].millis]
    ELSE [seconds |-> endDate[1].seconds - startDate[1].seconds - 1,
          millis |-> 1000 + endDate[1].millis - startDate[1].millis]

\* the span counted in weeks
weeksDiff(startDate, endDate) ==
    LET diff == timeDiff(startDate, endDate)
    IN  [whole |-> diff.seconds \div (3600 * 24 * 7),
         part |-> diff.seconds % (3600 * 24 * 7) # 0 \/ diff.millis # 0]

\* line 43: timeDiff / (1000 * 3600 * 24), which is not rounded: the whole
\* days, and whether a part of a day is left
daysDiff(startDate, endDate) ==
    LET diff == timeDiff(startDate, endDate)
    IN  [whole |-> diff.seconds \div (3600 * 24),
         part |-> diff.seconds % (3600 * 24) # 0 \/ diff.millis # 0]

\* line 45: daysDiff > 30
MoreThan(days, n) == days.whole > n \/ (days.whole = n /\ days.part)

\* lines 53-54: Math.floor(date.getTime() / 1000)
Unix(date) == date.seconds

\* HistoricalDataChart.tsx:31-62: the click of the button of a mounted chart
\* (line 213: disabled={loading || !startDate || !endDate}), up to the
\* await.  At most MaxInFlight requests of the chart are in flight, those of
\* unmounted charts included
fetchHistorical(startDate, endDate) ==
    /\ ChartMounted(ui)
    /\ ~ui["HistoricalDataChart"].loading
    /\ startDate # Undefined
    /\ endDate # Undefined
    /\ Len(ui["HistoricalDataChart"].runs) < MaxInFlight
    /\ LET h == [ui["HistoricalDataChart"] EXCEPT !.failed = FALSE]
       IN  ui' = [ui EXCEPT !["HistoricalDataChart"] =
               IF startDate = Undefined \/ endDate = Undefined
               THEN [h EXCEPT !.toast = Toast("error", "Please select start and end dates")]
               ELSE IF After(startDate[1], endDate[1])
               THEN [h EXCEPT !.toast = Toast("error", "Start date must be before end date")]
               ELSE IF MoreThan(daysDiff(startDate, endDate), 30)
               THEN [h EXCEPT !.toast =
                        Toast("error", "Historical data retrieval is limited to 30 days")]
               ELSE [h EXCEPT !.loading = TRUE,
                              !.runs = Append(@, [live |-> TRUE] @@
                                                 RunAt("historical", <<"historical">>,
                                                       <<Unix(startDate[1])>>,
                                                       <<Unix(endDate[1])>>))]]
    /\ UNCHANGED <<fetchCall, analyzerVars, callerVars, badgeVars, imageVars, keyVars, pageVars>>

\* HistoricalDataChart.tsx:62-75: run i resumes.  Of a chart that has been
\* unmounted the setters change nothing; the toast is shown all the same
HistoricalAnswered(i, resp) ==
    /\ i \in 1..Len(ui["HistoricalDataChart"].runs)
    /\ LET h == ui["HistoricalDataChart"]
           run == h.runs[i]
           got == Awaited(run, resp)
           done == IF run.live
                   THEN [h EXCEPT !.loading = FALSE, !.runs = RemoveAt(h.runs, i)]
                   ELSE [h EXCEPT !.runs = RemoveAt(h.runs, i), !.failed = FALSE]
       IN  ui' = [ui EXCEPT !["HistoricalDataChart"] =
               IF got.outcome = "threw"
               THEN IF run.live
                    THEN [done EXCEPT
                             !.toast = Toast("error", "Failed to fetch historical data"),
                             !.failed = ~run.early /\ Failure(resp),
                             !.escaped = FALSE]
                    ELSE [done EXCEPT
                             !.toast = Toast("error", "Failed to fetch historical data")]
               ELSE IF Len(got.value[1].list) > 0
               THEN [done EXCEPT !.list = IF run.live THEN got.value[1].list ELSE @,
                                 !.toast = Toast("success", "Retrieved historical data points")]
               ELSE [done EXCEPT !.toast =
                        Toast("warning", "No historical data available for the selected period")]]
    /\ UNCHANGED <<fetchCall, analyzerVars, callerVars, badgeVars, imageVars, keyVars, pageVars>>

\* AirQualityMap, part_000:94-98: the effect of [currentLocation], up to the await
MapFetchData ==
    /\ Len(ui["AirQualityMap"].runs) < MaxInFlight
    /\ ui' = [ui EXCEPT !["AirQualityMap"] =
                  [@ EXCEPT !.loading = TRUE,
                            !.runs = Append(@, RunAt("current", Undefined,
                                                     Undefined, Undefined)),
                            !.failed = FALSE]]
    /\ UNCHANGED <<fetchCall, analyzerVars, callerVars, badgeVars, imageVars, keyVars, pageVars>>

\* AirQualityMap, part_000:98-106: run i resumes; the catch logs to the console
MapAnswered(i, resp) ==
    /\ i \in 1..Len(ui["AirQualityMap"].runs)
    /\ LET m == ui["AirQualityMap"]
           run == m.runs[i]
           got == Awaited(run, resp)
           done == [m EXCEPT !.loading = FALSE, !.runs = RemoveAt(m.runs, i)]
       IN  ui' = [ui EXCEPT !["AirQualityMap"] =
               IF got.outcome = "threw"
               THEN [done EXCEPT !.failed = ~run.early /\ Failure(resp), !.escaped = FALSE]
               ELSE IF Len(got.value[1].list) > 0
               THEN [done EXCEPT !.current = <<got.value[1].list[1]>>, !.failed = FALSE]
               ELSE [done EXCEPT !.failed = FALSE]]
    /\ UNCHANGED <<fetchCall, analyzerVars, callerVars, badgeVars, imageVars, keyVars, pageVars>>

\* what is typed in the search box
Queries == {"", "  ", "Pune"}

\* searchQuery.trim()
Trimmed(query) == IF query = "  " THEN "" ELSE query

\* PlaceSearch.tsx:17-31: the submit, up to the await of fetch
handlePlaceSearch(query) ==
    /\ ~ui["PlaceSearch"].loading
    /\ LET p == [ui["PlaceSearch"] EXCEPT !.failed = FALSE]
       IN  ui' = [ui EXCEPT !["PlaceSearch"] =
               IF Trimmed(query) = ""
               THEN [p EXCEPT !.toast = Toast("error", "Please enter a place name")]
               ELSE [p EXCEPT !.loading = TRUE,
                              !.runs = <<[stage |-> "search", early |-> FALSE]>>]]
    /\ UNCHANGED <<fetchCall, analyzerVars, callerVars, badgeVars, imageVars, keyVars, pageVars>>

\* PlaceSearch.tsx:28-31 and 45-50: the run resumes after the await of
\* fetch.  A rejected fetch is caught; of any response, ok or not (response.ok
\* is not looked at), the run goes on to await response.json()
SearchAnswered(resp) ==
    /\ ui["PlaceSearch"].runs # <<>>
    /\ ui["PlaceSearch"].runs[1].stage = "search"
    /\ LET p == ui["PlaceSearch"]
       IN  ui' = [ui EXCEPT !["PlaceSearch"] =
               IF resp.rejected
               THEN [p EXCEPT !.loading = FALSE, !.runs = <<>>, !.failed = TRUE,
                              !.escaped = FALSE,
                              !.toast = Toast("error",
                                  "Error searching for location. Please try again.")]
               ELSE [p EXCEPT !.runs = <<[stage |-> "json", early |-> FALSE,
                                          response |-> resp]>>]]
    /\ UNCHANGED <<fetchCall, analyzerVars, callerVars, badgeVars, imageVars, keyVars, pageVars>>

\* PlaceSearch.tsx:31-50: the run resumes after the await of response.json().
\* A body that is no JSON is caught; a body that is JSON is an array of
\* places, or, of a response that is not ok, something without places
SearchParsed ==
    /\ ui["PlaceSearch"].runs # <<>>
    /\ ui["PlaceSearch"].runs[1].stage = "json"
    /\ LET p == ui["PlaceSearch"]
           resp == p.runs[1].response
           done == [p EXCEPT !.loading = FALSE, !.runs = <<>>, !.failed = Failure(resp),
                             !.escaped = FALSE]
       IN  ui' = [ui EXCEPT !["PlaceSearch"] =
               IF ~resp.json
               THEN [done EXCEPT !.toast =
                        Toast("error", "Error searching for location. Please try again.")]
               ELSE IF Len(resp.list) > 0
               THEN [done EXCEPT !.current = <<resp.list[1]>>,
                                 !.toast = Toast("success", "Location found")]
               ELSE [done EXCEPT !.toast =
                        Toast("error", "Location not found. Please try a different search term.")]]
    /\ UNCHANGED <<fetchCall, analyzerVars, callerVars, badgeVars, imageVars, keyVars, pageVars>>

FetchInit ==
    /\ fetchCall = NoFetchCall
    /\ ui = IdleUi
    /\ AnalyzerIdle
    /\ CallersIdle
    /\ BadgeIdle
    /\ ImagesIdle
    /\ KeysIdle
    /\ PageIdle

\* the tabs of Dashboard.tsx:137-141
Tabs == {"forecast", "historical", "pollutants"}

\* Dashboard with its chart, the map and the place search are followed one
\* at a time: a run starts while the components outside the group are as
\* mounted
FetchNext ==
    \/ Alone({"Dashboard", "HistoricalDataChart"}) /\ DashboardFetchData
    \/ \E i \in 1..MaxInFlight, resp \in Responses : DashboardAnswered(i, resp)
    \/ \E tab \in Tabs : SelectTab(tab)
    \/ \E startDate \in Dates, endDate \in Dates : fetchHistorical(startDate, endDate)
    \/ \E i \in 1..MaxInFlight, resp \in Responses : HistoricalAnswered(i, resp)
    \/ Alone({"AirQualityMap"}) /\ MapFetchData
    \/ \E i \in 1..MaxInFlight, resp \in Responses : MapAnswered(i, resp)
    \/ \E query \in Queries : Alone({"PlaceSearch"}) /\ handlePlaceSearch(query)
    \/ \E resp \in Responses : SearchAnswered(resp)
    \/ SearchParsed

FetchSpec == FetchInit /\ [][FetchNext]_vars

(***************************************************************************)
(* ImageAnalysis: the upload list and the toasts.  handleFileChange,       *)
(* removeImage and analyzeImages of components/ImageAnalysis.tsx:26-111    *)
(* and of the second source of the component, part_001:112-327, which also *)
(* checks the size of the files, holds a Gemini API key and sends the      *)
(* images to the Gemini API.  A file is its MIME type (the part before the *)
(* slash and the part after) and its size in bytes; a preview URL is kept  *)
(* as the file it was made for.  Of the component's state the model        *)
(* follows images, previews, isAnalyzing and geminiApiKey; results, progress,    *)
(* rawResponse and selectedModel (and the storage entries of the Gemini    *)
(* key and model) are written by the handlers and read by the rendering    *)
(* only, and are not followed.                                             *)
(***************************************************************************)
ImageComponents == {"src/components/ImageAnalysis.tsx", "unnamed/part_001"}

FiveMegabyteJpeg == [type |-> [major |-> "image", minor |-> "jpeg"], size |-> 5242880]

LargePng == [type |-> [major |-> "image", minor |-> "png"], size |-> 5242881]

Pdf == [type |-> [major |-> "application", minor |-> "pdf"], size |-> 2048]

\* an image of exactly 5MB, an image of one byte more, and a file that is no
\* image
Files == {FiveMegabyteJpeg, LargePng, Pdf}

\* e.target.files: any one or two files, or up to six images of 5MB
Selections ==
    UNION {[1..n -> Files] : n \in 0..2}
        \cup {[i \in 1..n |-> FiveMegabyteJpeg] : n \in 3..6}

\* file.type.startsWith('image/')
IsImage(file) == file.type.major = "image"

\* URL.createObjectURL(file)
createObjectURL(file) == [blob |-> file]

\* the check of part_001:140-145; components/ImageAnalysis.tsx has none
Oversized(file) == component = "unnamed/part_001" /\ file.size > 5 * 1024 * 1024

handleFileChange(selectedFiles) ==
    /\ Len(images) + Len(selectedFiles) <= MaxImages
    /\ LET validFiles == SelectSeq(selectedFiles, IsImage)
           oversizedFiles == SelectSeq(validFiles, Oversized)
           newPreviews == [i \in 1..Len(validFiles) |-> createObjectURL(validFiles[i])]
       IN  IF Len(selectedFiles) > 5
           THEN /\ notice' = "You can upload a maximum of 5 images at once"
                /\ UNCHANGED <<images, previews, revoked>>
           ELSE IF Len(validFiles) # Len(selectedFiles)
           THEN /\ notice' = "Please upload only image files"
                /\ UNCHANGED <<images, previews, revoked>>
           ELSE IF Len(oversizedFiles) > 0
           THEN /\ notice' = "Some files exceed the 5MB limit"
                /\ UNCHANGED <<images, previews, revoked>>
           ELSE /\ images' = images \o validFiles
                /\ previews' = previews \o newPreviews
                /\ UNCHANGED <<revoked, notice>>
    /\ UNCHANGED <<component, isAnalyzing, geminiApiKey, analyzerVars, callerVars, badgeVars, fetchVars, keyVars, pageVars>>

\* a removal that forgets the preview
removeImageKeepingPreview(index) ==
    /\ index \in 1..Len(images)
    /\ revoked' = revoked \cup {previews[index]}
    /\ images' = RemoveAt(images, index)
    /\ UNCHANGED <<previews, notice, component, isAnalyzing, geminiApiKey, analyzerVars,
                   callerVars, badgeVars, fetchVars, keyVars, pageVars>>

\* the button of preview number index (counted from 1)
removeImage(index) ==
    /\ index \in 1..Len(images)
    /\ revoked' = revoked \cup {previews[index]}
    /\ images' = RemoveAt(images, index)
    /\ previews' = RemoveAt(previews, index)
    /\ UNCHANGED <<notice, component, isAnalyzing, geminiApiKey, analyzerVars, callerVars,
                   badgeVars, fetchVars, keyVars, pageVars>>

\* the field of the Gemini API key: empty, or a key typed or saved before
GeminiKeys == {"", "gemini-key"}

\* part_001, the input of the API key: onChange={(e) => setApiKey(e.target.value)}
ApiKeyTyped(value) ==
    /\ component = "unnamed/part_001"
    /\ value # geminiApiKey
    /\ geminiApiKey' = value
    /\ UNCHANGED <<component, images, previews, revoked, notice, isAnalyzing,
                   analyzerVars, callerVars, badgeVars, fetchVars, keyVars, pageVars>>

\* part_001:173-177, from the Save button (disabled={!apiKey}) with the
\* geminiApiKey state: the state keeps its value
saveApiKey ==
    /\ component = "unnamed/part_001"
    /\ geminiApiKey # ""
    /\ notice' = "API key saved"
    /\ UNCHANGED <<component, images, previews, revoked, isAnalyzing, geminiApiKey,
                   analyzerVars, callerVars, badgeVars, fetchVars, keyVars, pageVars>>

\* the Analyze button: disabled={isAnalyzing || previews.length === 0}, and in
\* part_001 also || !apiKey
AnalyzeDisabled ==
    \/ isAnalyzing # "no"
    \/ Len(previews) = 0
    \/ (component = "unnamed/part_001" /\ geminiApiKey = "")

\* analyzeImages, up to its first await: ImageAnalysis.tsx:67-78 (the delay of
\* two seconds) and part_001:199-232 (the encoding of the images; with the
\* button enabled geminiApiKey is not empty and there is no prompt for a key)
analyzeImages ==
    /\ ~AnalyzeDisabled
    /\ IF Len(images) = 0
       THEN /\ notice' = "Please upload at least one image to analyze"
            /\ UNCHANGED isAnalyzing
       ELSE /\ isAnalyzing' = IF component = "unnamed/part_001" THEN "encoding" ELSE "delay"
            /\ UNCHANGED notice
    /\ UNCHANGED <<component, images, previews, revoked, geminiApiKey,
                   analyzerVars, callerVars, badgeVars, fetchVars, keyVars, pageVars>>

\* ImageAnalysis.tsx:78-110: the delay is over; the mock result is set
DelayElapsed ==
    /\ isAnalyzing = "delay"
    /\ notice' = "Analysis completed"
    /\ isAnalyzing' = "no"
    /\ UNCHANGED <<component, images, previews, revoked, geminiApiKey,
                   analyzerVars, callerVars, badgeVars, fetchVars, keyVars, pageVars>>

\* part_001:319-326: the catch and the finally of analyzeImages; the toast is
\* 'Analysis failed: ' and the message of the error
AnalysisFailed ==
    /\ notice' = "Analysis failed"
    /\ isAnalyzing' = "no"

\* part_001:230-286: every file has been read (or a FileReader failed) and the
\* run goes on to await fetch
ImagesEncoded(read) ==
    /\ isAnalyzing = "encoding"
    /\ IF read
       THEN isAnalyzing' = "fetch" /\ UNCHANGED notice
       ELSE AnalysisFailed
    /\ UNCHANGED <<component, images, previews, revoked, geminiApiKey,
                   analyzerVars, callerVars, badgeVars, fetchVars, keyVars, pageVars>>

\* what fetch gives the run: it rejects, or a response that is ok or not
GeminiAnswers == {"rejected", "not ok", "ok"}

\* part_001:280-293: fetch has answered, and the run goes on to await
\* response.json(), of the error or of the data
GeminiAnswered(answer) ==
    /\ isAnalyzing = "fetch"
    /\ IF answer = "rejected"
       THEN AnalysisFailed
       ELSE /\ isAnalyzing' = IF answer = "not ok" THEN "errorData" ELSE "data"
            /\ UNCHANGED notice
    /\ UNCHANGED <<component, images, previews, revoked, geminiApiKey,
                   analyzerVars, callerVars, badgeVars, fetchVars, keyVars, pageVars>>

\* part_001:289-290: the body of the response that is not ok has been read, or
\* could not be parsed; an error is thrown either way
ErrorDataRead ==
    /\ isAnalyzing = "errorData"
    /\ AnalysisFailed
    /\ UNCHANGED <<component, images, previews, revoked, geminiApiKey,
                   analyzerVars, callerVars, badgeVars, fetchVars, keyVars, pageVars>>

\* the body of an ok response: no JSON, JSON without the text of a candidate,
\* a text extractJSON (part_001:79-92) finds no results in, or results
GeminiBodies == {"no JSON", "no candidates", "no results", "results"}

\* part_001:293-326: the body of the ok response has been read
DataRead(body) ==
    /\ isAnalyzing = "data"
    /\ IF body = "results"
       THEN /\ notice' = "Analysis completed successfully"
            /\ isAnalyzing' = "no"
       ELSE AnalysisFailed
    /\ UNCHANGED <<component, images, previews, revoked, geminiApiKey,
                   analyzerVars, callerVars, badgeVars, fetchVars, keyVars, pageVars>>

ImageInit ==
    /\ component \in ImageComponents
    /\ images = <<>>
    /\ previews = <<>>
    /\ revoked = {}
    /\ notice = "none"
    /\ isAnalyzing = "no"
    /\ geminiApiKey \in (IF component = "unnamed/part_001" THEN GeminiKeys ELSE {""})
    /\ AnalyzerIdle
    /\ CallersIdle
    /\ BadgeIdle
    /\ FetchIdle
    /\ KeysIdle
    /\ PageIdle

ImageNext ==
    \/ \E selectedFiles \in Selections : handleFileChange(selectedFiles)
    \/ \E index \in 1..MaxImages : removeImage(index)
    \/ \E value \in GeminiKeys : ApiKeyTyped(value)
    \/ saveApiKey
    \/ analyzeImages
    \/ DelayElapsed
    \/ \E read \in BOOLEAN : ImagesEncoded(read)
    \/ \E answer \in GeminiAnswers : GeminiAnswered(answer)
    \/ ErrorDataRead
    \/ \E body \in GeminiBodies : DataRead(body)

ImageSpec == ImageInit /\ [][ImageNext]_vars

(***************************************************************************)
(* setApiKey, airQualityService.ts:12-29 and inputHandle.ts:112-131.  A    *)
(* call runs up to the await of its test request and resumes when fetch    *)
(* has answered; calls overlap (at most MaxInFlight at a time) and are     *)
(* answered in any order.  Each module writes under its own storage key.   *)
(***************************************************************************)
KeyModules == {"services/airQualityService.ts", "services/inputHandle.ts"}

API_KEY_STORAGE_KEY(module) ==
    IF module = "services/airQualityService.ts"
    THEN "openweather_api_key" ELSE "openweather-api-key"

\* the keys a caller supplies
SuppliedKeys == {"key-A", "key-B"}

\* localStorage.setItem, whatever the test request gave
StoreUnvalidated(storage, module, key, resp) ==
    [storage EXCEPT ![API_KEY_STORAGE_KEY(module)] = <<key>>]

\* if (testResponse.ok) localStorage.setItem(API_KEY_STORAGE_KEY, key)
StoreIfOk(storage, module, key, resp) ==
    IF ~resp.rejected /\ resp.ok
    THEN [storage EXCEPT ![API_KEY_STORAGE_KEY(module)] = <<key>>]
    ELSE storage

\* the value the call returns: true after setItem, false from the not-ok
\* branch and from the catch (in inputHandle.ts the catch is also where a
\* body that is no JSON ends)
KeyReturns(module, resp) ==
    IF resp.rejected THEN FALSE
    ELSE IF resp.ok THEN TRUE
    ELSE FALSE

\* the not-ok branch of inputHandle.ts:124 awaits response.json() before it
\* returns; the not-ok branch of airQualityService.ts:25 returns at once
AwaitsBody(module, resp) ==
    module = "services/inputHandle.ts" /\ ~resp.rejected /\ ~resp.ok

\* setApiKey(key), up to the await of fetch
setApiKey(module, key) ==
    /\ Len(keyCalls) < MaxInFlight
    /\ keyCalls' = Append(keyCalls, [module |-> module, key |-> key,
                                     stage |-> "fetch", response |-> NoResponse])
    /\ UNCHANGED <<localStorage, keySettled, analyzerVars, callerVars, badgeVars,
                   fetchVars, imageVars, pageVars>>

\* call i resumes with the answer of its test request, and returns or goes on
\* to await the body
KeyAnswered(i, resp) ==
    /\ i \in 1..Len(keyCalls)
    /\ keyCalls[i].stage = "fetch"
    /\ LET call == keyCalls[i]
       IN  /\ localStorage' = StoreIfOk(localStorage, call.module, call.key, resp)
           /\ keySettled' = [module |-> call.module, key |-> call.key,
                             ok |-> ~resp.rejected /\ resp.ok,
                             before |-> localStorage,
                             returned |-> IF AwaitsBody(call.module, resp) THEN Undefined
                                          ELSE <<KeyReturns(call.module, resp)>>]
           /\ keyCalls' = IF AwaitsBody(call.module, resp)
                          THEN [keyCalls EXCEPT ![i] = [@ EXCEPT !.stage = "body",
                                                                 !.response = resp]]
                          ELSE RemoveAt(keyCalls, i)
    /\ UNCHANGED <<analyzerVars, callerVars, badgeVars, fetchVars, imageVars, pageVars>>

\* inputHandle.ts:124-129: call i resumes with the body of the response that
\* was not ok, or with the failure to parse it, and returns false
KeyBodyRead(i) ==
    /\ i \in 1..Len(keyCalls)
    /\ keyCalls[i].stage = "body"
    /\ LET call == keyCalls[i]
       IN  keySettled' = [module |-> call.module, key |-> call.key,
                          ok |-> FALSE,
                          before |-> localStorage,
                          returned |-> <<KeyReturns(call.module, call.response)>>]
    /\ keyCalls' = RemoveAt(keyCalls, i)
    /\ UNCHANGED <<localStorage, analyzerVars, callerVars, badgeVars, fetchVars,
                   imageVars, pageVars>>

KeyInit ==
    /\ localStorage = [k \in StorageKeys |-> Undefined]
    /\ keyCalls = <<>>
    /\ keySettled = NoKeySettled
    /\ AnalyzerIdle
    /\ CallersIdle
    /\ BadgeIdle
    /\ FetchIdle
    /\ ImagesIdle
    /\ PageIdle

KeyNext ==
    \/ \E module \in KeyModules, key \in SuppliedKeys : setApiKey(module, key)
    \/ \E i \in 1..MaxInFlight, resp \in Responses : KeyAnswered(i, resp)
    \/ \E i \in 1..MaxInFlight : KeyBodyRead(i)

KeySpec == KeyInit /\ [][KeyNext]_vars

(***************************************************************************)
(* The Dashboard page: Dashboard.tsx with its children CoordinateInput     *)
(* (CoordinateInput.tsx, which renders PlaceSearch.tsx) and AirQualityMap. *)
(* part_000 holds three sources of AirQualityMap (lines 1-193, 195-473 and *)
(* 475-731); the page is built with one of them, any of the three.  The    *)
(* state setters a handler calls before it returns or awaits are applied   *)
(* together in one render, and the effects that depend on what they        *)
(* changed run after that render and before the next event: they are part  *)
(* of the action of the handler.  A handler runs up to an await and        *)
(* resumes when the request is answered; of fetchData of Dashboard, of     *)
(* fetchData of the map and of the map's handlePlaceSearch at most         *)
(* MaxInFlight runs each are in flight, answered in any order.  The        *)
(* server's reading differs from one location to the other.  A coordinates *)
(* object is its values and its address: a state setter given the object   *)
(* the state holds already changes nothing, and no render and no effect    *)
(* follows.                                                                *)
(***************************************************************************)
Pune == [lat |-> 18520, lon |-> 73856]

Locations == {London, Pune}

NaN == Undefined

\* parseFloat: the longest numeric prefix, NaN when there is none
parseFloat(text) ==
    IF text = "45abc" THEN <<45000>>
    ELSE IF \E d \in Decimals : d[1] = text
    THEN <<(CHOOSE d \in Decimals : d[1] = text)[2]>>
    ELSE NaN

isNaN(x) == x = NaN

\* what the URL holds when the page is opened
OpenedWith ==
    {Undefined, <<[lat |-> "18.52", lon |-> "73.856"]>>, <<[lat |-> "abc", lon |-> "73.856"]>>}

\* setSearchParams({lat: coordinates.lat.toString(), lon: ...}), Dashboard.tsx:30-35
ParamsOf(coords) == <<[lat |-> toString(coords.lat), lon |-> toString(coords.lon)]>>

\* what the server holds for a location
ServerReading(coords) == IF coords = London THEN Reading1 ELSE Reading2

ServerForecast(coords) == <<ServerReading(coords), ServerReading(coords)>>

\* the answers to a request of a run
AnswersTo(run) ==
    {Rejected, NotOk, OkNoJson, Ok(<<>>),
     Ok(IF run.stage = "current" THEN <<ServerReading(run.coordinates)>>
        ELSE ServerForecast(run.coordinates))}

\* fetchData of the effect of [coordinates], up to its first await
Started(d, coords) ==
    [d EXCEPT !.isLoading = TRUE,
              !.runs = Append(@, [coordinates |-> coords, stage |-> "current"])]

\* the map of this source is rendered (MapContainer, with its click handler
\* and its marker): always at 130-187, once mapInitialized at 391-459 and
\* 655-717
MapShown(m) == m.source = "part_000:1-193" \/ m.mapInitialized

\* fetchData of the map's effect, up to its first await, in the map m as the
\* render left it.  part_000:94-98 and 109-110, 577-581 and 592: the effect
\* of [currentLocation] awaits fetchAirQualityData.  part_000:290-301 and
\* 319-322: the effect of [currentLocation, mapInitialized] calls fetchData
\* once mapInitialized, fetchData returns at once when lat or lon is 0, and
\* awaits fetch
MapStarted(m, coords) ==
    IF m.source = "part_000:195-473"
    THEN IF ~m.mapInitialized \/ coords.lat = 0 \/ coords.lon = 0
         THEN m
         ELSE [m EXCEPT !.isLoading = TRUE,
                        !.runs = Append(@, [coordinates |-> coords, stage |-> "fetch",
                                            response |-> NoResponse])]
    ELSE [m EXCEPT !.isLoading = TRUE,
                   !.runs = Append(@, [coordinates |-> coords, stage |-> "service",
                                       response |-> NoResponse])]

\* the answers to the request of a run of the map
MapAnswersTo(run) ==
    {Rejected, NotOk, OkNoJson, Ok(<<>>), Ok(<<ServerReading(run.coordinates)>>)}

\* the addresses of the coordinates objects: three objects at most are held
\* at a time (Dashboard's coordinates, the map's currentLocation and the
\* currentLocation of the map's first render, which the geolocation callbacks
\* close over)
Addresses == 0..3

\* the address of an object a handler builds: one that no held object has
NewAddress ==
    CHOOSE a \in Addresses :
        a \notin {dashboard.address, airQualityMap.address, IdleMap.address}

\* setCoordinates(newCoords), with newCoords the object at this address, and
\* the effects of the render that follows: Dashboard.tsx:30-35 (URL), 53-83
\* (fetchData), CoordinateInput.tsx:20-23 (the fields); input is
\* CoordinateInput as the handler leaves it.  Given the object it holds the
\* state stays as it is and nothing is rendered
setCoordinates(newCoords, address, input) ==
    IF address = dashboard.address
    THEN /\ coordinateInput' = input
         /\ UNCHANGED <<dashboard, searchParams>>
    ELSE /\ Len(dashboard.runs) < MaxInFlight
         /\ dashboard' = Started([dashboard EXCEPT !.coordinates = newCoords,
                                                   !.address = address], newCoords)
         /\ searchParams' = ParamsOf(newCoords)
         /\ coordinateInput' = [input EXCEPT !.lat = toString(newCoords.lat),
                                             !.lon = toString(newCoords.lon)]

\* the URL parameters as Dashboard.tsx:38-50 reads them
FromUrl(params) ==
    IF params = Undefined \/ params[1].lat = "" \/ params[1].lon = ""
    THEN Undefined
    ELSE LET lat == parseFloat(params[1].lat)
             lon == parseFloat(params[1].lon)
         IN  IF ~isNaN(lat) /\ ~isNaN(lon)
             THEN <<[lat |-> lat[1], lon |-> lon[1]]>> ELSE Undefined

\* the effects of the first render: the map asks for the position
\* (part_000:76-92, 268-288, 555-575; without geolocation the sources with
\* mapInitialized set it) and its effect of fetchData runs, Dashboard writes
\* its coordinates to the URL, reads the parameters the page was opened with
\* and starts fetchData for the coordinates of the first render; when the
\* parameters gave coordinates, the effects of [coordinates] run again
Mount(geolocationSupported) ==
    /\ ~mounted
    /\ mounted' = TRUE
    /\ airQualityMap' =
           MapStarted([airQualityMap EXCEPT
                           !.geolocation = IF geolocationSupported THEN "pending" ELSE "none",
                           !.mapInitialized = (airQualityMap.source # "part_000:1-193"
                                                   /\ ~geolocationSupported)],
                      airQualityMap.currentLocation)
    /\ LET begun == Started(dashboard, dashboard.coordinates)
           url == FromUrl(searchParams)
       IN  IF url = Undefined
           THEN /\ dashboard' = begun
                /\ searchParams' = ParamsOf(dashboard.coordinates)
                /\ UNCHANGED coordinateInput
           ELSE /\ dashboard' = Started([begun EXCEPT !.coordinates = url[1],
                                                     !.address = NewAddress], url[1])
                /\ searchParams' = ParamsOf(url[1])
                /\ coordinateInput' = [coordinateInput EXCEPT
                                           !.lat = toString(url[1].lat),
                                           !.lon = toString(url[1].lon)]
    /\ UNCHANGED <<pageToast, analyzerVars, callerVars, badgeVars, fetchVars, imageVars,
                   keyVars>>

\* part_000:79-86, 271-279, 558-566: the position arrives
GeolocationSuccess(position) ==
    /\ airQualityMap.geolocation = "pending"
    /\ Len(airQualityMap.runs) < MaxInFlight
    /\ airQualityMap' =
           MapStarted([airQualityMap EXCEPT
                           !.currentLocation = position,
                           !.address = NewAddress,
                           !.geolocation = "answered",
                           !.mapInitialized = (airQualityMap.source # "part_000:1-193")],
                      position)
    /\ setCoordinates(position, NewAddress, coordinateInput)
    /\ UNCHANGED <<mounted, pageToast, analyzerVars, callerVars, badgeVars, fetchVars,
                   imageVars, keyVars>>

\* part_000:86-90, 279-284, 566-571: no position; the currentLocation given
\* to onLocationSelect is the one of the first render.  At 279-284 the effect
\* of [currentLocation, mapInitialized] runs and starts fetchData for the
\* location the map holds; at 566-571 no dependency of the effect changed
GeolocationError ==
    /\ airQualityMap.geolocation = "pending"
    /\ LET answered == [airQualityMap EXCEPT
                            !.geolocation = "answered",
                            !.mapInitialized = (airQualityMap.source # "part_000:1-193")]
       IN  IF airQualityMap.source = "part_000:195-473"
           THEN /\ Len(airQualityMap.runs) < MaxInFlight
                /\ airQualityMap' = MapStarted(answered, airQualityMap.currentLocation)
           ELSE airQualityMap' = answered
    /\ setCoordinates(IdleMap.currentLocation, IdleMap.address, coordinateInput)
    /\ UNCHANGED <<mounted, pageToast, analyzerVars, callerVars, badgeVars, fetchVars,
                   imageVars, keyVars>>

\* part_000:112-117, 324-329, 595-600, and the map's effect of fetchData
handleMapClick(coords) ==
    /\ mounted
    /\ MapShown(airQualityMap)
    /\ Len(airQualityMap.runs) < MaxInFlight
    /\ airQualityMap' = MapStarted([airQualityMap EXCEPT !.currentLocation = coords,
                                                         !.address = NewAddress], coords)
    /\ setCoordinates(coords, NewAddress, coordinateInput)
    /\ pageToast' = Toast("info", "Selected location")
    /\ UNCHANGED <<mounted, analyzerVars, callerVars, badgeVars, fetchVars, imageVars,
                   keyVars>>

\* run i of the map's fetchData resumes after its first await.
\* part_000:98-107, 581-589, after fetchAirQualityData: the catch logs to the
\* console, and an empty list leaves currentData as it was.  part_000:299-316,
\* after fetch: a rejected fetch and a response that is not ok are caught
\* and an error toast is shown; any other response goes on to await
\* response.json()
MapFetchAnswered(i, resp) ==
    /\ i \in 1..Len(airQualityMap.runs)
    /\ airQualityMap.runs[i].stage \in {"service", "fetch"}
    /\ resp \in MapAnswersTo(airQualityMap.runs[i])
    /\ LET got == FetchSettles(resp)
           done == [airQualityMap EXCEPT !.isLoading = FALSE,
                                         !.runs = RemoveAt(airQualityMap.runs, i)]
       IN  IF airQualityMap.runs[i].stage = "service"
           THEN /\ airQualityMap' =
                       IF got.outcome = "returned" /\ Len(got.value[1].list) > 0
                       THEN [done EXCEPT !.currentData = <<got.value[1].list[1]>>]
                       ELSE done
                /\ UNCHANGED pageToast
           ELSE IF resp.rejected \/ ~resp.ok
           THEN /\ airQualityMap' = done
                /\ pageToast' = Toast("error", "Could not fetch air quality data")
           ELSE /\ airQualityMap' = [airQualityMap EXCEPT !.runs[i].stage = "json",
                                                          !.runs[i].response = resp]
                /\ UNCHANGED pageToast
    /\ UNCHANGED <<searchParams, mounted, dashboard, coordinateInput,
                   analyzerVars, callerVars, badgeVars, fetchVars, imageVars, keyVars>>

\* part_000:307-316: run i of the map's fetchData resumes after the await of
\* response.json(); a body that is no JSON is caught and an error toast is
\* shown, and an empty list leaves currentData as it was
MapBodyParsed(i) ==
    /\ i \in 1..Len(airQualityMap.runs)
    /\ airQualityMap.runs[i].stage = "json"
    /\ LET resp == airQualityMap.runs[i].response
           done == [airQualityMap EXCEPT !.isLoading = FALSE,
                                         !.runs = RemoveAt(airQualityMap.runs, i)]
       IN  IF ~resp.json
           THEN /\ airQualityMap' = done
                /\ pageToast' = Toast("error", "Could not fetch air quality data")
           ELSE /\ airQualityMap' = IF Len(resp.list) > 0
                                    THEN [done EXCEPT !.currentData = <<resp.list[1]>>]
                                    ELSE done
                /\ UNCHANGED pageToast
    /\ UNCHANGED <<searchParams, mounted, dashboard, coordinateInput,
                   analyzerVars, callerVars, badgeVars, fetchVars, imageVars, keyVars>>

\* part_000:174-182, 446-454, 703-711: the button 'View Detailed Analysis' of
\* the marker's popup, rendered in the map when currentData is not null
ViewDetailedAnalysis ==
    /\ mounted
    /\ MapShown(airQualityMap)
    /\ airQualityMap.currentData # Undefined
    /\ setCoordinates(airQualityMap.currentLocation, airQualityMap.address, coordinateInput)
    /\ UNCHANGED <<mounted, airQualityMap, pageToast, analyzerVars, callerVars, badgeVars,
                   fetchVars, imageVars, keyVars>>

\* a place of the answer of the geocoder: lat and lon are numerals
Place(coords) == [lat |-> toString(coords.lat), lon |-> toString(coords.lon)]

\* { lat: parseFloat(lat), lon: parseFloat(lon) } of data[0]: PlaceSearch.tsx:34-38,
\* part_000:352-353, 616-617
CoordinatesOf(place) == [lat |-> parseFloat(place.lat)[1], lon |-> parseFloat(place.lon)[1]]

\* the answers to a search: no answer, an error, a body that is no JSON, no
\* place, a place
SearchAnswers ==
    {Rejected, NotOk, OkNoJson, Ok(<<>>)} \cup {Ok(<<Place(c)>>) : c \in Locations}

\* the answers of a geocoder that finds every place
PlacesFound == {Ok(<<Place(c)>>) : c \in Locations}

\* part_000:331-343, 602-612: the search form of the map is submitted (its
\* button is disabled while isLoading), up to the await of fetch; the source
\* at 1-193 has no search
AirQualityMap_handlePlaceSearch(query) ==
    /\ mounted
    /\ airQualityMap.source # "part_000:1-193"
    /\ ~airQualityMap.isLoading
    /\ Len(airQualityMap.searches) < MaxInFlight
    /\ IF Trimmed(query) = ""
       THEN /\ pageToast' = Toast("error", "Please enter a place name")
            /\ UNCHANGED airQualityMap
       ELSE /\ airQualityMap' = [airQualityMap EXCEPT
                                     !.isLoading = TRUE,
                                     !.searches = Append(@, [stage |-> "fetch",
                                                             response |-> NoResponse])]
            /\ UNCHANGED pageToast
    /\ UNCHANGED <<searchParams, mounted, dashboard, coordinateInput,
                   analyzerVars, callerVars, badgeVars, fetchVars, imageVars, keyVars>>

\* part_000:341-349 and 360-365, 612-613 and 624-629: search i of the map
\* resumes after the await of fetch.  A rejected fetch is caught; at 345-347
\* a response that is not ok throws and is caught too; any other response
\* goes on to await response.json()
MapSearchAnswered(i, resp) ==
    /\ i \in 1..Len(airQualityMap.searches)
    /\ airQualityMap.searches[i].stage = "fetch"
    /\ IF resp.rejected \/ (airQualityMap.source = "part_000:195-473" /\ ~resp.ok)
       THEN /\ airQualityMap' = [airQualityMap EXCEPT
                                     !.isLoading = FALSE,
                                     !.searches = RemoveAt(airQualityMap.searches, i)]
            /\ pageToast' = Toast("error", "Error searching for location. Please try again.")
       ELSE /\ airQualityMap' = [airQualityMap EXCEPT !.searches[i].stage = "json",
                                                      !.searches[i].response = resp]
            /\ UNCHANGED pageToast
    /\ UNCHANGED <<searchParams, mounted, dashboard, coordinateInput,
                   analyzerVars, callerVars, badgeVars, fetchVars, imageVars, keyVars>>

\* part_000:349-365, 613-629: search i of the map resumes after the await of
\* response.json().  A body that is no JSON is caught.  With a place found,
\* setCurrentLocation, onLocationSelect and, in the finally,
\* setIsLoading(false) are applied in one render, and the map's effect of
\* fetchData runs after it.  A body that is JSON without a place (an empty
\* array, or what a response that is not ok carries) is 'not found'
MapSearchParsed(i) ==
    /\ i \in 1..Len(airQualityMap.searches)
    /\ airQualityMap.searches[i].stage = "json"
    /\ LET resp == airQualityMap.searches[i].response
           done == [airQualityMap EXCEPT !.isLoading = FALSE,
                                         !.searches = RemoveAt(airQualityMap.searches, i)]
       IN  IF ~resp.json
           THEN /\ airQualityMap' = done
                /\ pageToast' = Toast("error",
                                      "Error searching for location. Please try again.")
                /\ UNCHANGED <<searchParams, dashboard, coordinateInput>>
           ELSE IF Len(resp.list) > 0
           THEN /\ Len(airQualityMap.runs) < MaxInFlight
                /\ airQualityMap' =
                       MapStarted([done EXCEPT !.currentLocation = CoordinatesOf(resp.list[1]),
                                               !.address = NewAddress],
                                  CoordinatesOf(resp.list[1]))
                /\ setCoordinates(CoordinatesOf(resp.list[1]), NewAddress, coordinateInput)
                /\ pageToast' = Toast("success", "Location found")
           ELSE /\ airQualityMap' = done
                /\ pageToast' = Toast("error",
                       "Location not found. Please try a different search term.")
                /\ UNCHANGED <<searchParams, dashboard, coordinateInput>>
    /\ UNCHANGED <<mounted, analyzerVars, callerVars, badgeVars, fetchVars, imageVars,
                   keyVars>>

\* CoordinateInput.tsx:103-108
setLat(text) ==
    /\ mounted
    /\ ~coordinateInput.isLoading
    /\ coordinateInput' = [coordinateInput EXCEPT !.lat = text]
    /\ UNCHANGED <<searchParams, mounted, dashboard, airQualityMap, pageToast,
                   analyzerVars, callerVars, badgeVars, fetchVars, imageVars, keyVars>>

\* CoordinateInput.tsx:114-119
setLon(text) ==
    /\ mounted
    /\ ~coordinateInput.isLoading
    /\ coordinateInput' = [coordinateInput EXCEPT !.lon = text]
    /\ UNCHANGED <<searchParams, mounted, dashboard, airQualityMap, pageToast,
                   analyzerVars, callerVars, badgeVars, fetchVars, imageVars, keyVars>>

\* range tests that refuse the limits themselves
OutOfRangeOrOnLimit(x, limit) == x <= -limit \/ x >= limit

\* the range tests of CoordinateInput.tsx:36 and 41
OutOfRange(x, limit) == x < -limit \/ x > limit

\* CoordinateInput.tsx:25-47, with onSubmit of Dashboard.tsx:109
handleSubmit ==
    /\ mounted
    /\ ~coordinateInput.isLoading
    /\ LET parsedLat == parseFloat(coordinateInput.lat)
           parsedLon == parseFloat(coordinateInput.lon)
       IN  IF isNaN(parsedLat) \/ isNaN(parsedLon)
           THEN /\ pageToast' = Toast("error", "Please enter valid latitude and longitude values")
                /\ UNCHANGED <<searchParams, dashboard, coordinateInput>>
           ELSE IF OutOfRange(parsedLat[1], 90000)
           THEN /\ pageToast' = Toast("error", "Latitude must be between -90 and 90")
                /\ UNCHANGED <<searchParams, dashboard, coordinateInput>>
           ELSE IF OutOfRange(parsedLon[1], 180000)
           THEN /\ pageToast' = Toast("error", "Longitude must be between -180 and 180")
                /\ UNCHANGED <<searchParams, dashboard, coordinateInput>>
           ELSE /\ setCoordinates([lat |-> parsedLat[1], lon |-> parsedLon[1]],
                                  NewAddress, coordinateInput)
                /\ UNCHANGED pageToast
    /\ UNCHANGED <<mounted, airQualityMap, analyzerVars, callerVars, badgeVars, fetchVars,
                   imageVars, keyVars>>

\* CoordinateInput.tsx:49-54 and 69-71: the button, up to the answer
getCurrentLocation(geolocationSupported) ==
    /\ mounted
    /\ ~coordinateInput.isLoading
    /\ IF geolocationSupported
       THEN /\ coordinateInput' = [coordinateInput EXCEPT !.isLoading = TRUE]
            /\ pageToast' = Toast("info", "Getting your current location...")
       ELSE /\ pageToast' = Toast("error", "Geolocation is not supported by your browser")
            /\ UNCHANGED coordinateInput
    /\ UNCHANGED <<searchParams, mounted, dashboard, airQualityMap, analyzerVars,
                   callerVars, badgeVars, fetchVars, imageVars, keyVars>>

\* CoordinateInput.tsx:55-62
PositionFound(position) ==
    /\ coordinateInput.isLoading
    /\ setCoordinates(position, NewAddress, [coordinateInput EXCEPT !.isLoading = FALSE])
    /\ pageToast' = Toast("success", "Location updated to your current position")
    /\ UNCHANGED <<mounted, airQualityMap, analyzerVars, callerVars, badgeVars, fetchVars,
                   imageVars, keyVars>>

\* CoordinateInput.tsx:63-67
PositionError ==
    /\ coordinateInput.isLoading
    /\ coordinateInput' = [coordinateInput EXCEPT !.isLoading = FALSE]
    /\ pageToast' = Toast("error",
           "Could not get your location. Please check your browser permissions.")
    /\ UNCHANGED <<searchParams, mounted, dashboard, airQualityMap, analyzerVars,
                   callerVars, badgeVars, fetchVars, imageVars, keyVars>>

\* CoordinateInput.tsx:74-78, the onLocationSelect of PlaceSearch: the fields
\* are set and onSubmit is called with the coordinates, a new object; input
\* is CoordinateInput as the caller leaves it
CoordinateInput_handleLocationSelect(coordinates, input) ==
    setCoordinates(coordinates, NewAddress,
                   [input EXCEPT !.lat = toString(coordinates.lat),
                                 !.lon = toString(coordinates.lon)])

\* PlaceSearch.tsx:17-30: the search form of CoordinateInput is submitted, up
\* to the await of fetch; its button is disabled while isLoading (the prop,
\* CoordinateInput.tsx:87) or searching (PlaceSearch.tsx:62)
PlaceSearch_handlePlaceSearch(query) ==
    /\ mounted
    /\ ~coordinateInput.isLoading
    /\ ~coordinateInput.searching
    /\ IF Trimmed(query) = ""
       THEN /\ pageToast' = Toast("error", "Please enter a place name")
            /\ UNCHANGED coordinateInput
       ELSE /\ coordinateInput' = [coordinateInput EXCEPT
                                       !.searching = TRUE,
                                       !.search = <<[stage |-> "fetch",
                                                     response |-> NoResponse]>>]
            /\ UNCHANGED pageToast
    /\ UNCHANGED <<searchParams, mounted, dashboard, airQualityMap,
                   analyzerVars, callerVars, badgeVars, fetchVars, imageVars, keyVars>>

\* PlaceSearch.tsx:28-31 and 45-50: the search resumes after the await of
\* fetch.  A rejected fetch is caught; of any response, ok or not, the run
\* goes on to await response.json()
PlaceSearchAnswered(resp) ==
    /\ coordinateInput.search # <<>>
    /\ coordinateInput.search[1].stage = "fetch"
    /\ IF resp.rejected
       THEN /\ coordinateInput' = [coordinateInput EXCEPT !.searching = FALSE,
                                                          !.search = <<>>]
            /\ pageToast' = Toast("error", "Error searching for location. Please try again.")
       ELSE /\ coordinateInput' = [coordinateInput EXCEPT
                                       !.search = <<[stage |-> "json", response |-> resp]>>]
            /\ UNCHANGED pageToast
    /\ UNCHANGED <<searchParams, mounted, dashboard, airQualityMap,
                   analyzerVars, callerVars, badgeVars, fetchVars, imageVars, keyVars>>

\* PlaceSearch.tsx:31-50: the search resumes after the await of
\* response.json().  A body that is no JSON is caught; with a place found
\* handleLocationSelect of CoordinateInput is called, once; a body that is
\* JSON without a place is 'not found'
PlaceSearchParsed ==
    /\ coordinateInput.search # <<>>
    /\ coordinateInput.search[1].stage = "json"
    /\ LET resp == coordinateInput.search[1].response
           done == [coordinateInput EXCEPT !.searching = FALSE, !.search = <<>>]
       IN  IF ~resp.json
           THEN /\ coordinateInput' = done
                /\ pageToast' = Toast("error",
                                      "Error searching for location. Please try again.")
                /\ UNCHANGED <<searchParams, dashboard>>
           ELSE IF Len(resp.list) > 0
           THEN /\ CoordinateInput_handleLocationSelect(CoordinatesOf(resp.list[1]), done)
                /\ pageToast' = Toast("success", "Location found")
           ELSE /\ coordinateInput' = done
                /\ pageToast' = Toast("error",
                       "Location not found. Please try a different search term.")
                /\ UNCHANGED <<searchParams, dashboard>>
    /\ UNCHANGED <<mounted, airQualityMap, analyzerVars, callerVars, badgeVars, fetchVars,
                   imageVars, keyVars>>

\* Dashboard.tsx:59-79: run i resumes with the answer to its request
fetchDataAnswered(i, resp) ==
    /\ i \in 1..Len(dashboard.runs)
    /\ resp \in AnswersTo(dashboard.runs[i])
    /\ LET run == dashboard.runs[i]
           got == FetchSettles(resp)
           done == [dashboard EXCEPT !.isLoading = FALSE,
                                     !.runs = RemoveAt(dashboard.runs, i)]
       IN  IF got.outcome = "threw"
           THEN /\ dashboard' = done
                /\ pageToast' = Toast("error", "Failed to fetch air quality data")
           ELSE IF run.stage = "current"
           THEN /\ dashboard' = [dashboard EXCEPT
                       !.currentData = IF Len(got.value[1].list) > 0
                                       THEN <<got.value[1].list[1]>> ELSE Undefined,
                       !.runs[i].stage = "forecast"]
                /\ UNCHANGED pageToast
           ELSE /\ dashboard' = [done EXCEPT !.forecastData = got.value[1].list]
                /\ UNCHANGED pageToast
    /\ UNCHANGED <<searchParams, mounted, airQualityMap, coordinateInput, analyzerVars,
                   callerVars, badgeVars, fetchVars, imageVars, keyVars>>

\* the page as constructed, opened with or without parameters, built with
\* any of the sources of the map
PageInit ==
    /\ searchParams \in OpenedWith
    /\ mounted = FALSE
    /\ dashboard = IdleDashboard
    /\ airQualityMap \in {[IdleMap EXCEPT !.source = s] : s \in MapSources}
    /\ coordinateInput = IdleCoordinateInput
    /\ pageToast = NoToast
    /\ AnalyzerIdle
    /\ CallersIdle
    /\ BadgeIdle
    /\ FetchIdle
    /\ ImagesIdle
    /\ KeysIdle

AllAnswers == {Rejected, NotOk, OkNoJson} \cup {Ok(l) : l \in {<<>>} \cup
                 {<<ServerReading(c)>> : c \in Locations} \cup
                 {ServerForecast(c) : c \in Locations}}

(***************************************************************************)
(* The page with a server that answers every request with its data and a   *)
(* geocoder that finds every place: locations selected on the map, by a    *)
(* click, the popup's button or the map's search, while earlier runs are   *)
(* in flight.                                                              *)
(***************************************************************************)
DataAnswers ==
    {Ok(<<ServerReading(c)>>) : c \in Locations} \cup {Ok(ServerForecast(c)) : c \in Locations}

ReliableNext ==
    \/ \E supported \in BOOLEAN : Mount(supported)
    \/ \E position \in Locations : GeolocationSuccess(position)
    \/ GeolocationError
    \/ \E coords \in Locations : handleMapClick(coords)
    \/ \E i \in 1..MaxInFlight, resp \in DataAnswers : MapFetchAnswered(i, resp)
    \/ \E i \in 1..MaxInFlight : MapBodyParsed(i)
    \/ ViewDetailedAnalysis
    \/ \E query \in Queries : AirQualityMap_handlePlaceSearch(query)
    \/ \E i \in 1..MaxInFlight, resp \in PlacesFound : MapSearchAnswered(i, resp)
    \/ \E i \in 1..MaxInFlight : MapSearchParsed(i)
    \/ \E i \in 1..MaxInFlight, resp \in DataAnswers : fetchDataAnswered(i, resp)

ReliableSpec == PageInit /\ [][ReliableNext]_vars

(***************************************************************************)
(* The page without overlapping fetches: opened without coordinates in the *)
(* URL, and a location is selected, on the map or by the search of the     *)
(* coordinate card, only when no run of fetchData, of Dashboard or of the  *)
(* map, is in flight.  A search may be submitted at any time its button    *)
(* allows, and is answered in any way.                                     *)
(***************************************************************************)
SequentialInit ==
    /\ PageInit
    /\ FromUrl(searchParams) = Undefined

\* no run of fetchData is in flight
Settled == dashboard.runs = <<>> /\ airQualityMap.runs = <<>>

SequentialNext ==
    \/ \E supported \in BOOLEAN : Mount(supported)
    \/ \E position \in Locations : Settled /\ GeolocationSuccess(position)
    \/ Settled /\ GeolocationError
    \/ \E coords \in Locations : Settled /\ handleMapClick(coords)
    \/ \E i \in 1..MaxInFlight, resp \in AllAnswers : MapFetchAnswered(i, resp)
    \/ \E i \in 1..MaxInFlight : MapBodyParsed(i)
    \/ Settled /\ ViewDetailedAnalysis
    \/ \E query \in Queries : PlaceSearch_handlePlaceSearch(query)
    \/ \E resp \in SearchAnswers : PlaceSearchAnswered(resp)
    \/ Settled /\ PlaceSearchParsed
    \/ \E i \in 1..MaxInFlight, resp \in AllAnswers : fetchDataAnswered(i, resp)

SequentialSpec == SequentialInit /\ [][SequentialNext]_vars

(***************************************************************************)
(* The controls that select a location, used one at a time: the page       *)
(* opened without coordinates in the URL, every request answered with its  *)
(* data, every place found, and a control of the page used only when no    *)
(* run of fetchData and no search is in flight.  The map's search, alone,  *)
(* is submitted whenever its button allows.                                *)
(***************************************************************************)
\* no run of fetchData and no search is in flight
Quiet ==
    /\ Settled
    /\ airQualityMap.searches = <<>>
    /\ coordinateInput.search = <<>>

SelectionNext ==
    \/ \E supported \in BOOLEAN : Mount(supported)
    \/ \E position \in Locations : Quiet /\ GeolocationSuccess(position)
    \/ Quiet /\ GeolocationError
    \/ \E coords \in Locations : Quiet /\ handleMapClick(coords)
    \/ \E i \in 1..MaxInFlight, resp \in DataAnswers : MapFetchAnswered(i, resp)
    \/ \E i \in 1..MaxInFlight : MapBodyParsed(i)
    \/ Quiet /\ ViewDetailedAnalysis
    \/ \E query \in Queries : AirQualityMap_handlePlaceSearch(query)
    \/ \E i \in 1..MaxInFlight, resp \in PlacesFound : MapSearchAnswered(i, resp)
    \/ \E i \in 1..MaxInFlight : dashboard.runs = <<>> /\ MapSearchParsed(i)
    \/ \E query \in Queries : Quiet /\ PlaceSearch_handlePlaceSearch(query)
    \/ \E resp \in PlacesFound : PlaceSearchAnswered(resp)
    \/ PlaceSearchParsed
    \/ \E c \in Locations : Quiet /\ setLat(toString(c.lat))
    \/ \E c \in Locations : Quiet /\ setLon(toString(c.lon))
    \/ Quiet /\ handleSubmit
    \/ \E supported \in BOOLEAN : Quiet /\ getCurrentLocation(supported)
    \/ \E position \in Locations : Quiet /\ PositionFound(position)
    \/ Quiet /\ PositionError
    \/ \E i \in 1..MaxInFlight, resp \in DataAnswers : fetchDataAnswered(i, resp)

SelectionSpec == SequentialInit /\ [][SelectionNext]_vars

(***************************************************************************)
(* The page opened with coordinates in the URL and left alone: the effects *)
(* of the first render, the answer to the map's geolocation request and    *)
(* the answers to the requests of fetchData; the user selects nothing.     *)
(***************************************************************************)
OpenedInit ==
    /\ PageInit
    /\ FromUrl(searchParams) # Undefined

OpenedNext ==
    \/ \E supported \in BOOLEAN : Mount(supported)
    \/ \E position \in Locations : GeolocationSuccess(position)
    \/ GeolocationError
    \/ \E i \in 1..MaxInFlight, resp \in AllAnswers : MapFetchAnswered(i, resp)
    \/ \E i \in 1..MaxInFlight : MapBodyParsed(i)
    \/ \E i \in 1..MaxInFlight, resp \in AllAnswers : fetchDataAnswered(i, resp)

OpenedSpec == OpenedInit /\ [][OpenedNext]_vars

(***************************************************************************)
(* The coordinate form on its own: any text in the two fields, submitted;  *)
(* the requests the accepted submissions start stay in flight.             *)
(***************************************************************************)
LatTexts == {"", "45abc", "-90.001", "-90", "90", "90.001"}

LonTexts == {"", "-180.001", "-180", "180", "180.001"}

FormNext ==
    \/ \E supported \in BOOLEAN : Mount(supported)
    \/ \E text \in LatTexts : setLat(text)
    \/ \E text \in LonTexts : setLon(text)
    \/ handleSubmit

FormSpec == PageInit /\ [][FormNext]_vars

(***************************************************************************)
(* Vocabulary of the properties.                                           *)
(***************************************************************************)
HasDefinition(key) == key \in DOMAIN pollutantInfo

NameOf(key) == pollutantInfo[key].name

ThresholdsOf(key) == pollutantInfo[key].thresholds

\* the pollutant of this key is named in the list sig
ListedIn(sig, key) == HasDefinition(key) /\ NameOf(key) \in Range(sig)

KeyOfName(n) == CHOOSE k \in DOMAIN pollutantInfo : pollutantInfo[k].name = n

\* the sources of the named pollutants, one list after the other
RECURSIVE SourcesInOrder(_)
SourcesInOrder(names) ==
    IF names = <<>> THEN <<>>
    ELSE pollutantInfo[KeyOfName(Head(names))].sources \o SourcesInOrder(Tail(names))

(***************************************************************************)
(* C1.                                                                     *)
(***************************************************************************)
\* C1, as claimed: a pollutant is named in significantPollutants iff it has a
\* definition and its value is strictly above its `fair` threshold.
C1_SignificantAboveFair ==
    Returned =>
        /\ \A i \in 1..Len(components) :
              ListedIn(analysis.significantPollutants, components[i].key)
                  <=> /\ HasDefinition(components[i].key)
                      /\ components[i].value > ThresholdsOf(components[i].key).fair
        /\ \A n \in Range(analysis.significantPollutants) :
              \E i \in 1..Len(components) :
                  HasDefinition(components[i].key) /\ NameOf(components[i].key) = n

\* C1, amended: a pollutant is named in significantPollutants iff it has a
\* definition and its status is High or Very High, that is iff its value is at
\* or above its `moderate` threshold; Low, Elevated and Moderate are not
\* significant.
C1_SignificantFromModerateThreshold ==
    Returned =>
        /\ \A i \in 1..Len(components) :
              ListedIn(analysis.significantPollutants, components[i].key)
                  <=> /\ HasDefinition(components[i].key)
                      /\ components[i].value >= ThresholdsOf(components[i].key).moderate
        /\ \A n \in Range(analysis.significantPollutants) :
              \E i \in 1..Len(components) :
                  HasDefinition(components[i].key) /\ NameOf(components[i].key) = n
        /\ \A j \in 1..Len(analysis.results) :
              analysis.results[j].name \in Range(analysis.significantPollutants)
                  <=> analysis.results[j].status \in {"High", "Very High"}

\* a reading analysed with one pollutant between its fair and moderate
\* thresholds, not listed, and another at or above its moderate threshold, listed
C1_Witness ==
    /\ Returned
    /\ \E i, j \in 1..Len(components) :
          /\ HasDefinition(components[i].key)
          /\ HasDefinition(components[j].key)
          /\ components[i].value > ThresholdsOf(components[i].key).fair
          /\ components[i].value < ThresholdsOf(components[i].key).moderate
          /\ ~ListedIn(analysis.significantPollutants, components[i].key)
          /\ components[j].value >= ThresholdsOf(components[j].key).moderate
          /\ ListedIn(analysis.significantPollutants, components[j].key)

(***************************************************************************)
(* C2.                                                                     *)
(***************************************************************************)
AtOrBelowGood(r) ==
    \A i \in 1..Len(r) :
        HasDefinition(r[i].key) => r[i].value <= ThresholdsOf(r[i].key).good

\* what analyzePollutants reports as health implications when no pollutant is
\* measured at all: its output for clean air
CleanAirImplications == analyzePollutants(pollutantInfo, <<>>).healthImplications

\* C2, as claimed: when every pollutant of the reading is at or below its
\* `good` threshold, significantPollutants is empty, every pollutant is in the
\* lowest band (a value equal to the threshold included) and healthImplications
\* is the one reported for clean air.
C2_AtOrBelowGoodIsGood ==
    (Returned /\ AtOrBelowGood(components)) =>
        /\ analysis.significantPollutants = <<>>
        /\ \A j \in 1..Len(analysis.results) : analysis.results[j].status = "Low"
        /\ analysis.healthImplications = CleanAirImplications

(***************************************************************************)
(* C3.                                                                     *)
(***************************************************************************)
\* the worst status of a result, as a rank: 0 without pollutant, 1 for Low, up
\* to 5 for Very High.  Two results of equal rank have the same worst band
\* among their significant pollutants, wherever significance starts.
StatusRank(status) ==
    CASE status = "Low" -> 1
      [] status = "Elevated" -> 2
      [] status = "Moderate" -> 3
      [] status = "High" -> 4
      [] status = "Very High" -> 5

WorstBand(an) ==
    IF an.results = <<>> THEN 0
    ELSE LET ranks == {StatusRank(an.results[j].status) : j \in 1..Len(an.results)}
         IN  CHOOSE m \in ranks : \A n \in ranks : n <= m

\* no value of the reading sits on a threshold: its band is the same whether a
\* threshold is read as the last value of a band or as the first of the next
OffThresholds(r) ==
    \A i \in 1..Len(r) :
        HasDefinition(r[i].key) =>
            r[i].value \notin {ThresholdsOf(r[i].key).good, ThresholdsOf(r[i].key).fair,
                               ThresholdsOf(r[i].key).moderate, ThresholdsOf(r[i].key).poor}

FirstWithHealthEffects(results, text) ==
    CHOOSE j \in 1..Len(results) :
        /\ pollutantInfo[results[j].key].healthEffects = text
        /\ \A k \in 1..(j - 1) : pollutantInfo[results[k].key].healthEffects # text

\* a pollutant of the result is above the lowest band
AboveLow(an) == \E j \in 1..Len(an.results) : an.results[j].status # "Low"

C4_SourcesOfSignificant ==
    Returned =>
        LET all == SourcesInOrder(analysis.significantPollutants)
            ps == analysis.potentialSources
        IN  /\ Range(ps) = Range(all)
            /\ NoDup(ps)
            /\ \A a, b \in 1..Len(ps) :
                  a < b => IndexOf(all, ps[a]) < IndexOf(all, ps[b])

\* a reading analysed with a significant pollutant and one above Low that is
\* not significant and declares a source that is not listed
C4_Witness ==
    /\ Returned
    /\ Len(analysis.significantPollutants) = 1
    /\ \E j \in 1..Len(analysis.results) :
          /\ analysis.results[j].status \in {"Elevated", "Moderate"}
          /\ \E src \in Range(pollutantInfo[analysis.results[j].key].sources) :
                src \notin Range(analysis.potentialSources)

(***************************************************************************)
(* C5.                                                                     *)
(***************************************************************************)
\* C5: potentialSources holds no source twice.
C5_NoDuplicateSources ==
    Returned => NoDup(analysis.potentialSources)

\* a reading analysed with two significant pollutants that declare a common
\* source
C5_Witness ==
    /\ Returned
    /\ Len(analysis.significantPollutants) = 2
    /\ Range(pollutantInfo[KeyOfName(analysis.significantPollutants[1])].sources)
          \cap Range(pollutantInfo[KeyOfName(analysis.significantPollutants[2])].sources)
          # {}
    /\ Len(analysis.potentialSources)
          < Len(SourcesInOrder(analysis.significantPollutants))

(***************************************************************************)
(* C6.                                                                     *)
(***************************************************************************)
\* the index in the reading of the entry of the pollutant with this name
EntryIndexOfName(r, n) ==
    CHOOSE i \in 1..Len(r) : HasDefinition(r[i].key) /\ NameOf(r[i].key) = n

\* C6: the names of significantPollutants are in the order in which their keys
\* come in the reading, whatever the order of the table; so the same reading
\* with its keys in another order yields the names in that other order.
C6_InputOrder ==
    Returned =>
        /\ \A a \in 1..Len(analysis.significantPollutants) :
              \E i \in 1..Len(components) :
                  /\ HasDefinition(components[i].key)
                  /\ NameOf(components[i].key) = analysis.significantPollutants[a]
        /\ \A a, b \in 1..Len(analysis.significantPollutants) :
              a < b =>
                  EntryIndexOfName(components, analysis.significantPollutants[a])
                      < EntryIndexOfName(components, analysis.significantPollutants[b])

\* two significant pollutants analysed in one order and then, the keys
\* permuted, in the other: the names came out in the two orders, the second
\* of them against the order of the table
C6_Witness ==
    /\ Returned
    /\ last.op = "permute"
    /\ Len(analysis.significantPollutants) = 2
    /\ last.sig = <<analysis.significantPollutants[2], analysis.significantPollutants[1]>>
    /\ IndexOf(TableOrder, KeyOfName(analysis.significantPollutants[1]))
          > IndexOf(TableOrder, KeyOfName(analysis.significantPollutants[2]))

(***************************************************************************)
(* C7.                                                                     *)
(***************************************************************************)
\* r2 is r with the value of entry i raised and nothing else changed
RaisedAt(r, r2, i) ==
    /\ Len(r2) = Len(r)
    /\ i \in 1..Len(r)
    /\ r2[i].key = r[i].key
    /\ r2[i].value > r[i].value
    /\ \A j \in 1..Len(r) : j # i => r2[j] = r[j]

\* C7: when a call is followed by a call on the same reading with one value
\* raised, the raised pollutant stays listed if it was listed, and every other
\* pollutant is listed after iff it was listed before.
C7_RaiseKeepsSignificant ==
    [][\A i \in 1..Len(components) :
          (/\ analysis.outcome = "returned"
           /\ analysis'.outcome = "returned"
           /\ RaisedAt(components, components', i))
              => /\ ListedIn(analysis.significantPollutants, components[i].key)
                     => ListedIn(analysis'.significantPollutants, components[i].key)
                 /\ \A j \in 1..Len(components) :
                       j # i =>
                           (ListedIn(analysis.significantPollutants, components[j].key)
                               <=> ListedIn(analysis'.significantPollutants,
                                            components[j].key))]_vars

\* a call after a raise where a pollutant listed before the raise is now at or
\* above its poor threshold and still listed
C7_Witness ==
    /\ Returned
    /\ last.op = "raise"
    /\ \E i \in 1..Len(components) :
          /\ HasDefinition(components[i].key)
          /\ components[i].value >= ThresholdsOf(components[i].key).poor
          /\ ListedIn(last.sig, components[i].key)
          /\ ListedIn(analysis.significantPollutants, components[i].key)
          /\ Len(components) = 1

(***************************************************************************)
(* C8.                                                                     *)
(***************************************************************************)
\* C8: every call made on the entries of the first call's reading returns
\* what the first call returned (results with their statuses,
\* significantPollutants, potentialSources, healthImplications), whatever
\* calls on other readings were made and whatever the callers pushed onto
\* the arrays they hold in between.
C8_SameReadingSameResult ==
    \A c \in Callers :
        (callers[c].stage = "answered" /\ callers[c].passed = first.input) =>
            callers[c].received = first.output

\* the third call was made on the entries of the first call's reading, which
\* lists a pollutant, after a call on another reading and after the first
\* caller pushed onto an array it holds
C8_Witness ==
    \E c, d \in Callers :
        /\ c # d
        /\ callers[c].stage = "answered"
        /\ callers[c].at = 1
        /\ callers[c].touched
        /\ callers[d].stage = "answered"
        /\ callers[d].at = 3
        /\ callers[d].passed = first.input
        /\ first.between = 1
        /\ callers[d].received.significantPollutants # <<>>

(***************************************************************************)
(* C9.                                                                     *)
(***************************************************************************)
KeysOf(s) == [j \in 1..Len(s) |-> s[j].key]

\* C9, as claimed: a call never raises an error; the results hold one entry
\* per key of the reading that has a definition and no other; the derived
\* fields are those of the reading without its keys that have no definition.
C9_UnknownKeysIgnored ==
    Called =>
        /\ analysis.outcome = "returned"
        /\ KeysOf(analysis.results) = KeysOf(KnownOnly(pollutantInfo, components))
        /\ LET stripped == analyzePollutants(pollutantInfo,
                                             KnownOnly(pollutantInfo, components))
           IN  /\ analysis.significantPollutants = stripped.significantPollutants
               /\ analysis.potentialSources = stripped.potentialSources
               /\ analysis.healthImplications = stripped.healthImplications

(***************************************************************************)
(* C10.                                                                    *)
(***************************************************************************)
\* the reading of the example: {pm2_5: 60, o3: 40}
ExampleReading == <<[key |-> "pm2_5", value |-> 60], [key |-> "o3", value |-> 40]>>

\* another reading whose worst band is the one of the example, reached by
\* another pollutant: o3 at 150, between its moderate and poor thresholds
SameBandReading == <<[key |-> "o3", value |-> 150]>>

\* C10, as claimed: for the example, significantPollutants is <<"PM2.5">>,
\* potentialSources is the declared source list of PM2.5 and
\* healthImplications is the message of the band, the one every reading whose
\* worst band is that band is given.
C10_ExampleBandMessage ==
    (Called /\ components = ExampleReading) =>
        /\ analysis.outcome = "returned"
        /\ analysis.significantPollutants = <<"PM2.5">>
        /\ analysis.potentialSources = pollutantInfo["pm2_5"].sources
        /\ analysis.healthImplications =
              analyzePollutants(pollutantInfo, SameBandReading).healthImplications

\* C10, amended: for the example, significantPollutants is <<"PM2.5">>,
\* potentialSources is the declared source list of PM2.5 in its declared order
\* and healthImplications is the list holding the healthEffects text of PM2.5.
C10_ExampleHealthEffects ==
    (Called /\ components = ExampleReading) =>
        /\ analysis.outcome = "returned"
        /\ analysis.significantPollutants = <<"PM2.5">>
        /\ analysis.potentialSources =
              <<"Vehicle exhaust", "Power plants", "Wood burning",
                "Industrial processes", "Wildfires">>
        /\ analysis.healthImplications = <<pollutantInfo["pm2_5"].healthEffects>>
        /\ \A j \in 1..Len(analysis.results) :
              analysis.results[j].key = "o3" => analysis.results[j].status = "Low"

\* the example analysed
C10_Witness ==
    /\ Called
    /\ components = ExampleReading
    /\ Len(analysis.results) = 2

(***************************************************************************)
(* C11.                                                                    *)
(***************************************************************************)
\* C11, as claimed: for the empty reading the call returns, with
\* significantPollutants and potentialSources empty and healthImplications the
\* acceptable message (the one the analyzer of inputHandle.ts gives for the
\* empty reading), not an empty value.
C11_EmptyReadingAcceptableMessage ==
    (Called /\ components = <<>>) =>
        /\ analysis.outcome = "returned"
        /\ analysis.significantPollutants = <<>>
        /\ analysis.potentialSources = <<>>
        /\ analysis.healthImplications # <<>>
        /\ analysis.healthImplications = inputHandle_analyzePollutants(<<>>).concerns

(***************************************************************************)
(* C12.                                                                    *)
(***************************************************************************)
\* the position 1..5 of a band, for each of the displays (0 for "Unknown")
CardPosition(severity) ==
    CASE severity = "text-green-600" -> 1
      [] severity = "text-yellow-600" -> 2
      [] severity = "text-orange-600" -> 3
      [] severity = "text-red-600 font-bold" -> 4
      [] severity = "text-purple-600 font-bold" -> 5

TilePosition(severity) ==
    CASE severity = "border-green-500" -> 1
      [] severity = "border-yellow-500" -> 2
      [] severity = "border-orange-500" -> 3
      [] severity = "border-red-500" -> 4
      [] severity = "border-purple-500" -> 5

TextPosition(severity) ==
    CASE severity = "Good" -> 1
      [] severity = "Fair" -> 2
      [] severity = "Moderate" -> 3
      [] severity = "Poor" -> 4
      [] severity = "Very Poor" -> 5
      [] severity = "Unknown" -> 0

\* C12, as claimed: for every pollutant of an analysed reading, the position
\* of the status analyzePollutants gave it is the position of the severity
\* CurrentDataCard, the Dashboard tile and getSeverityText give the same value,
\* a value equal to a threshold included.  Stated for getSeverityText where it
\* names a band: for the value 0 it answers "Unknown".
C12_OneBandConvention ==
    Returned =>
        \A j \in 1..Len(analysis.results) :
            LET p == analysis.results[j]
                th == pollutantInfo[p.key].thresholds
            IN  /\ CardPosition(CurrentDataCardSeverity(p.value, th)) = StatusRank(p.status)
                /\ TilePosition(DashboardTileSeverity(p.value, th)) = StatusRank(p.status)
                /\ p.value # 0 =>
                       TextPosition(getSeverityText(p.value, th)) = StatusRank(p.status)

(***************************************************************************)
(* C13.                                                                    *)
(***************************************************************************)
Ascending(th) == th.good < th.fair /\ th.fair < th.moderate /\ th.moderate < th.poor

\* the five bands of a threshold set as intervals, lowest first: value is in
\* band n
InBand(value, th, n) ==
    CASE n = 1 -> value < th.good
      [] n = 2 -> th.good <= value /\ value < th.fair
      [] n = 3 -> th.fair <= value /\ value < th.moderate
      [] n = 4 -> th.moderate <= value /\ value < th.poor
      [] n = 5 -> th.poor <= value

\* C13: the thresholds of every pollutant are strictly increasing in both
\* pollutantInfo tables; every analysed value lies in exactly one of the five
\* bands, the one whose status it was given; and a larger value of the same
\* pollutant is never given a lower band.
C13_ThresholdsPartition ==
    /\ \A k \in DOMAIN pollutantInfo : Ascending(pollutantInfo[k].thresholds)
    /\ \A k \in DOMAIN inputHandle_pollutantInfo :
          Ascending(inputHandle_pollutantInfo[k].thresholds)
    /\ Returned =>
          \A j \in 1..Len(analysis.results) :
              LET p == analysis.results[j]
                  th == pollutantInfo[p.key].thresholds
              IN  /\ Cardinality({n \in 1..5 : InBand(p.value, th, n)}) = 1
                  /\ InBand(p.value, th, StatusRank(p.status))
                  /\ \A w \in SampleValues(p.key) :
                        w >= p.value =>
                            StatusRank(Status(w, th)) >= StatusRank(p.status)

\* a reading analysed with one value on its poor threshold, in the highest
\* band, and one in the lowest band
C13_Witness ==
    /\ Returned
    /\ \E i, j \in 1..Len(analysis.results) :
          /\ analysis.results[i].value = pollutantInfo[analysis.results[i].key].thresholds.poor
          /\ analysis.results[i].status = "Very High"
          /\ analysis.results[j].status = "Low"

(***************************************************************************)
(* C14.                                                                    *)
(***************************************************************************)
\* the analyzer of inputHandle.ts flags the pollutant of this key
inputHandle_Flags(entries, key) ==
    ExceedsLimit(entries, key, inputHandle_pollutantInfo[key].thresholds.moderate)

\* C14, as claimed: every pollutant key has the same thresholds in the two
\* pollutantInfo tables, and for every analysed reading each of PM2.5, O3 and
\* NO2 is flagged by the analyzer of inputHandle.ts iff analyzePollutants of
\* airQualityService.ts lists it as significant.
C14_OneDefinitionPerKey ==
    /\ DOMAIN pollutantInfo = DOMAIN inputHandle_pollutantInfo
    /\ \A k \in DOMAIN pollutantInfo :
          pollutantInfo[k].thresholds = inputHandle_pollutantInfo[k].thresholds
    /\ Returned =>
          \A k \in {"pm2_5", "o3", "no2"} :
              inputHandle_Flags(components, k)
                  <=> ListedIn(analysis.significantPollutants, k)

(***************************************************************************)
(* C15.                                                                    *)
(***************************************************************************)
\* C15: after any sequence of calls (and of pushes by callers onto arrays
\* they were returned) the pollutantInfo table and its sources lists are as
\* loaded, the reading of every answered caller has the entries it had when
\* it was passed, the four arrays of a result are at addresses of their own
\* that were free when the call began (no array of the table, of a reading
\* or of another result), and what a caller that pushed nothing holds is
\* still what it was returned.
C15_NoSideEffects ==
    /\ pollutantInfo = pollutantInfoTable
    /\ \A a \in 1..Len(TableOrder) : heap[a] = TableHeap[a]
    /\ \A c \in Callers :
          callers[c].stage = "answered" =>
              /\ heap[callers[c].reading].kind = "Object"
              /\ heap[callers[c].reading].items = callers[c].passed
              /\ callers[c].result # 0 => Cardinality(ArraysOf(c)) = 4
              /\ \A a \in ArraysOf(c) : a >= callers[c].free
              /\ \A d \in Callers :
                    (d # c /\ callers[d].stage = "answered") =>
                        ArraysOf(c) \cap ArraysOf(d) = {}
              /\ ~callers[c].touched => Held(c) = callers[c].received

\* two callers were answered for readings of the same entries, with sources
\* listed; one pushed onto its potentialSources, the other pushed nothing
C15_Witness ==
    \E c, d \in Callers :
        /\ c # d
        /\ callers[c].stage = "answered"
        /\ callers[d].stage = "answered"
        /\ callers[c].passed = callers[d].passed
        /\ callers[c].received.potentialSources # <<>>
        /\ callers[c].touched
        /\ Len(Held(c).potentialSources) > Len(callers[c].received.potentialSources)
        /\ ~callers[d].touched

(***************************************************************************)
(* C19.                                                                    *)
(***************************************************************************)
\* C19: whatever the order in which the callers' calls are made, and
\* whatever the callers pushed onto the arrays they hold, every caller is
\* returned what a call on its reading returns when it is the only call
\* made since the module was loaded: the analysis of the entries it passed
\* over the table as loaded.
C19_CallersDoNotInterfere ==
    \A c \in Callers :
        callers[c].stage = "answered" =>
            /\ callers[c].received.outcome = "returned"
            /\ callers[c].received = analyzePollutants(pollutantInfoTable, callers[c].passed)

\* three calls were made: both callers were answered, for different readings
\* with different sources, the second of them after the other caller's call
\* and after that caller pushed onto the sources it was returned
C19_Witness ==
    \E c, d \in Callers :
        /\ callers[c].stage = "answered"
        /\ callers[d].stage = "answered"
        /\ callers[c].at < callers[d].at
        /\ callers[d].at = 3
        /\ callers[c].touched
        /\ Len(Held(c).potentialSources) > Len(callers[c].received.potentialSources)
        /\ callers[c].passed # callers[d].passed
        /\ callers[c].received.potentialSources # <<>>
        /\ callers[d].received.potentialSources # <<>>
        /\ callers[c].received.potentialSources # callers[d].received.potentialSources

(***************************************************************************)
(* C16.                                                                    *)
(***************************************************************************)
BandNames == <<"Good", "Fair", "Moderate", "Poor", "Very Poor">>

\* C16: a rendered badge names band number aqi when aqi is in 1..5, a name no
\* other index of 1..5 is given, and "Unknown" for every other integer; the
\* copy of getAQICategory of inputHandle.ts gives the same name; and the colour
\* class of an index of 1..5 (in either copy) is given to no other index of
\* 1..5.
C16_IndexToBand ==
    badge # NoBadge =>
        /\ aqi \in 1..5 =>
              /\ badge.category = BandNames[aqi]
              /\ \A b \in 1..5 :
                    b # aqi =>
                        /\ getAQICategory(b) # badge.category
                        /\ getAQIColorClass(b) # badge.colorClass
                        /\ inputHandle_getAQIColorClass(b) # badge.inputHandle.colorClass
        /\ aqi \notin 1..5 => badge.category = "Unknown"
        /\ badge.inputHandle.category = badge.category

\* the badge rendered for the index 4, and named "Poor"
C16_Witness ==
    /\ aqi = 4
    /\ badge # NoBadge
    /\ badge.category = "Poor"
    /\ badge.inputHandle.category = "Poor"

(***************************************************************************)
(* C18.                                                                    *)
(***************************************************************************)
\* C18: a call of fetchAirQualityData that has ended either returned the body
\* of an ok response (the object whose list is the collection of readings),
\* having issued one request, or threw; it threw when the response was not
\* ok; of type historical with the start or the end timestamp missing, it
\* threw with no request issued; of type current or forecast, the request it
\* issued is the one it issues with no start and no end.
C18_FetchReturnsOrFails ==
    fetchCall.outcome \in {"returned", "threw"} =>
        /\ fetchCall.outcome = "returned" =>
              /\ Len(fetchCall.requests) = 1
              /\ ~fetchCall.response.rejected
              /\ fetchCall.response.ok
              /\ fetchCall.value = <<[list |-> fetchCall.response.list]>>
        /\ (fetchCall.requests # <<>> /\ ~fetchCall.response.ok) =>
              fetchCall.outcome = "threw"
        /\ (/\ TypeOr(fetchCall.type) = "historical"
            /\ (fetchCall.historyStart = Undefined \/ fetchCall.historyEnd = Undefined)) =>
              /\ fetchCall.outcome = "threw"
              /\ fetchCall.requests = <<>>
        /\ TypeOr(fetchCall.type) \in {"current", "forecast"} =>
              /\ Len(fetchCall.requests) = 1
              /\ fetchCall.requests[1] =
                    BuildRequest(fetchCall.lat, fetchCall.lon, fetchCall.type,
                                 Undefined, Undefined, getApiKey(fetchCall.stored))
              /\ fetchCall.requests[1].start = Undefined
              /\ fetchCall.requests[1].end = Undefined

\* a forecast call given a start and an end returned two readings
C18_Witness ==
    /\ fetchCall.outcome = "returned"
    /\ fetchCall.type = <<"forecast">>
    /\ fetchCall.historyStart # Undefined
    /\ fetchCall.historyEnd # Undefined
    /\ Len(fetchCall.value[1].list) = 2

(***************************************************************************)
(* C17.                                                                    *)
(***************************************************************************)
\* C17, as claimed: when a run of Dashboard.fetchData, fetchHistorical,
\* AirQualityMap.fetchData or the place search has ended on a failed request
\* (fetch rejected, or a response that is not ok), the component has shown an
\* error toast, no error left the handler, and its loading flag is false, so
\* that a new request is accepted.
C17_FailuresNotified ==
    \A c \in Components :
        ui[c].failed =>
            /\ ui[c].toast.kind = "error"
            /\ ~ui[c].escaped
            /\ ~ui[c].loading

(***************************************************************************)
(* C20.                                                                    *)
(***************************************************************************)
\* C20, as claimed: after any handleFileChange and removeImage, `images` holds
\* at most 5 files, each of an image type and of at most 5MB.
C20_UploadLimits ==
    /\ Len(images) <= 5
    /\ \A i \in 1..Len(images) :
          /\ IsImage(images[i])
          /\ images[i].size <= 5 * 1024 * 1024

(***************************************************************************)
(* C21.                                                                    *)
(***************************************************************************)
\* C21: a call of setApiKey that has returned wrote the supplied key under
\* its storage key and returned true exactly when its test request was
\* answered ok; otherwise it returned false and local storage is as it was.
\* (keySettled is the last step a call took; a step that left its call at the
\* await of the body has returned nothing yet, and wrote nothing.)
C21_KeyStoredIffValidated ==
    keySettled # NoKeySettled =>
        LET name == API_KEY_STORAGE_KEY(keySettled.module)
        IN  /\ keySettled.returned # Undefined => keySettled.returned = <<keySettled.ok>>
            /\ keySettled.returned = Undefined => ~keySettled.ok
            /\ keySettled.ok =>
                  localStorage = [keySettled.before EXCEPT ![name] = <<keySettled.key>>]
            /\ ~keySettled.ok => localStorage = keySettled.before

\* a stored key survives a later call whose request failed
C21_Witness ==
    /\ keySettled # NoKeySettled
    /\ ~keySettled.ok
    /\ keySettled.returned = <<FALSE>>
    /\ localStorage[API_KEY_STORAGE_KEY(keySettled.module)] # Undefined
    /\ localStorage[API_KEY_STORAGE_KEY(keySettled.module)] # <<keySettled.key>>

(***************************************************************************)
(* C22.                                                                    *)
(***************************************************************************)
\* the two fields parse to a latitude in -90..90 and a longitude in -180..180
FieldsInRange ==
    LET parsedLat == parseFloat(coordinateInput.lat)
        parsedLon == parseFloat(coordinateInput.lon)
    IN  /\ parsedLat # NaN
        /\ parsedLon # NaN
        /\ -90000 <= parsedLat[1] /\ parsedLat[1] <= 90000
        /\ -180000 <= parsedLon[1] /\ parsedLon[1] <= 180000

\* C22: a submission of the coordinate form hands the parsed fields to
\* onSubmit (they become Dashboard's coordinates and a fetchData run starts
\* for them) when they are numbers within -90..90 and -180..180, limits
\* included; any other submission shows an error toast and leaves Dashboard's
\* coordinates and runs as they were.
C22_SubmitChecksRange ==
    [][handleSubmit =>
          IF FieldsInRange
          THEN /\ dashboard'.coordinates =
                     [lat |-> parseFloat(coordinateInput.lat)[1],
                      lon |-> parseFloat(coordinateInput.lon)[1]]
               /\ Len(dashboard'.runs) = Len(dashboard.runs) + 1
               /\ dashboard'.runs[Len(dashboard'.runs)].coordinates =
                     dashboard'.coordinates
          ELSE /\ pageToast'.kind = "error"
               /\ dashboard' = dashboard
               /\ searchParams' = searchParams]_vars

\* a submission of two limits has been accepted
C22_Witness ==
    /\ dashboard.coordinates \in
          {[lat |-> 90000, lon |-> -180000], [lat |-> -90000, lon |-> 180000]}
    /\ Len(dashboard.runs) = 2
    /\ dashboard.runs[2].coordinates = dashboard.coordinates

(***************************************************************************)
(* C23.                                                                    *)
(***************************************************************************)
\* two dates in order and at most 30 days (2592000 seconds) apart
DatesAccepted(startDate, endDate) ==
    /\ startDate # Undefined
    /\ endDate # Undefined
    /\ \/ startDate[1].seconds < endDate[1].seconds
       \/ startDate[1].seconds = endDate[1].seconds
              /\ startDate[1].millis <= endDate[1].millis
    /\ \/ endDate[1].seconds - startDate[1].seconds < 2592000
       \/ endDate[1].seconds - startDate[1].seconds = 2592000
              /\ endDate[1].millis <= startDate[1].millis

\* a request of the mounted chart is in flight
Awaiting(h) == \E i \in 1..Len(h.runs) : h.runs[i].live

C24_LatestLocationShown ==
    (mounted /\ dashboard.runs = <<>>) =>
        /\ dashboard.currentData = <<ServerReading(dashboard.coordinates)>>
        /\ dashboard.forecastData = ServerForecast(dashboard.coordinates)

(***************************************************************************)
(* C25.                                                                    *)
(***************************************************************************)
\* C25, as claimed: isLoading is true in every state in which a run of
\* fetchData is in flight.
C25_LoadingWhileInFlight ==
    dashboard.runs # <<>> => dashboard.isLoading

(***************************************************************************)
(* C26.                                                                    *)
(***************************************************************************)
\* C26, as claimed: without overlapping fetches, whenever isLoading is false
\* currentData is null or the reading of Dashboard's coordinates and
\* forecastData is empty or the forecast of Dashboard's coordinates.
C26_IdleDataOfCurrentLocation ==
    (mounted /\ ~dashboard.isLoading) =>
        /\ dashboard.currentData \in {Undefined, <<ServerReading(dashboard.coordinates)>>}
        /\ dashboard.forecastData \in {<<>>, ServerForecast(dashboard.coordinates)}

(***************************************************************************)
(* C27.                                                                    *)
(***************************************************************************)
\* C27, as claimed: opened with valid lat and lon parameters and with no
\* location selected by the user, Dashboard's coordinates are, from the
\* effects of the first render on, the coordinates of the parameters.
C27_UrlCoordinatesKept ==
    mounted =>
        \E params \in OpenedWith :
            /\ FromUrl(params) # Undefined
            /\ dashboard.coordinates = FromUrl(params)[1]

(***************************************************************************)
(* C28.                                                                    *)
(***************************************************************************)
\* a location selection that set Dashboard's coordinates
LocationSelected ==
    \/ \E coords \in Locations : handleMapClick(coords)
    \/ ViewDetailedAnalysis
    \/ \E i \in 1..MaxInFlight : MapSearchParsed(i) /\ dashboard'.address # dashboard.address
    \/ PlaceSearchParsed /\ dashboard'.address # dashboard.address
    \/ handleSubmit /\ dashboard' # dashboard
    \/ \E position \in Locations : PositionFound(position)

\* C28, as claimed: after a map click, the button of the marker's popup, a
\* place found by the search, an
\* accepted submission of the coordinate form or a position found by the
\* current-location button, the map's currentLocation is Dashboard's
\* coordinates.
C28_MapFollowsSelection ==
    [][LocationSelected =>
          airQualityMap'.currentLocation = dashboard'.coordinates]_vars

(***************************************************************************)
(* C29.                                                                    *)
(***************************************************************************)
\* previews[i] is the preview made for images[i]
Paired(files, urls) ==
    /\ Len(urls) = Len(files)
    /\ \A i \in 1..Len(files) : urls[i] = createObjectURL(files[i])

\* a batch handleFileChange rejects: more than 5 files, a file that is no
\* image, or a file over 5MB where sizes are checked
RejectedBatch(selectedFiles) ==
    \/ Len(selectedFiles) > 5
    \/ \E i \in 1..Len(selectedFiles) : ~IsImage(selectedFiles[i])
    \/ \E i \in 1..Len(selectedFiles) : Oversized(selectedFiles[i])

\* C29: images and previews have the same length and previews[i] is the
\* preview of images[i] after every handleFileChange and removeImage; a
\* rejected batch changes neither list, an accepted one is appended to both,
\* and removeImage(i) removes entry i, and no other, from both.
C29_PreviewsFollowImages ==
    [][/\ Paired(images', previews')
       /\ \A selectedFiles \in Selections :
             handleFileChange(selectedFiles) =>
                 IF RejectedBatch(selectedFiles)
                 THEN images' = images /\ previews' = previews
                 ELSE images' = images \o selectedFiles
       /\ \A index \in 1..MaxImages :
             removeImage(index) =>
                 /\ Len(images') = Len(images) - 1
                 /\ \A i \in 1..Len(images') :
                       /\ images'[i] = images[IF i < index THEN i ELSE i + 1]
                       /\ previews'[i] = previews[IF i < index THEN i ELSE i + 1]]_vars

\* two files are left, paired with their previews, after a removal and a
\* rejected batch
C29_Witness ==
    /\ Len(images) = 2
    /\ images[1] # images[2]
    /\ Paired(images, previews)
    /\ revoked # {}
    /\ notice = "Please upload only image files"

====
